---- MODULE Spec2Model ----
(***************************************************************************)
(* Verification model of the real-time video generation server:           *)
(*   - lib/pipeline_manager.py  PipelineManager (lifecycle state machine)  *)
(*   - lib/frame_processor.py   FrameProcessor (buffer, worker, queues)    *)
(*   - lib/tracks.py            VideoProcessingTrack (recv, input loop)    *)
(*   - lib/webrtc.py            Session, NotificationSender, data channel  *)
(* Each section gives the state, the operations translated from the       *)
(* source, the specification that runs them, and the properties checked.  *)
(***************************************************************************)
EXTENDS Integers, Sequences, FiniteSets, TLC

VARIABLES
    \* ---- PipelineManager (lib/pipeline_manager.py)
    manager,        \* _status, _pipeline, _pipeline_id, _load_params, _error_message
    lock,           \* owner of PipelineManager._lock, or "free"
    callers,        \* per calling thread: position in its manager call, args, result
    instances,      \* number of pipeline objects instantiated so far
    loadCalls,      \* number of load calls made so far
    \* ---- uniform sampling (FrameProcessor.prepare_chunk as a function)
    sN, sBuf, sK, sChunk, sPc,
    \* ---- FrameProcessor (lib/frame_processor.py)
    running, shutdown_event, started,
    frame_buffer,       \* deque(maxlen=max_buffer_size) of input frames
    queues,             \* the queue.Queue objects created so far: [maxsize, items]
    output_queue,       \* self.output_queue: index of the current queue object
    parameters,         \* self.parameters
    parameters_queue,   \* self.parameters_queue
    is_prepared, paused,
    worker,             \* worker thread: position and locals of worker_loop/process_chunk
    event,              \* event-loop thread: position and locals of put/get/stop
    delivered,          \* frames returned by get(), in the order returned
    notified,           \* messages handed to notification_callback
    nextIn, nextOut,    \* next input frame number, next produced frame number
    updates,            \* update_parameters calls made so far
    budget,             \* what the environment does in this run: frames put, frames
                        \* produced, update_parameters calls
    accepted,           \* initial parameters overlaid with every accepted update
    resized,            \* the last queue replacement: frames queued then, frames produced
    prepared,           \* the pipeline handles prepare has been called on
    \* ---- session (lib/tracks.py, lib/webrtc.py)
    track,              \* VideoProcessingTrack: input_task_running, readyState
    session,            \* Session: pc.connectionState, position of close(), counts
    dc,                 \* data channel messages handled by on_data_channel_message
    sender,             \* NotificationSender, its data channel and scheduled sends
    \* ---- application (app.py), FPS tracker, sessions sharing the manager
    app,                \* offers handled, the last HTTP response, sessions registered
    fps,                \* FrameProcessor FPS tracking: samples kept, clock, published value
    shared              \* per session: where its worker is in process_chunk, its handle

pmVars == <<manager, lock, callers, instances, loadCalls>>
sampleVars == <<sN, sBuf, sK, sChunk, sPc>>
fpVars == <<running, shutdown_event, started, frame_buffer, queues, output_queue,
           parameters, parameters_queue, is_prepared, paused, worker, event,
           delivered, notified, nextIn, nextOut, updates, budget, accepted, resized, prepared,
           track, session, dc, sender, app, fps, shared>>
sessVars == <<track, session, dc, sender, app, fps, shared>>
vars == <<manager, lock, callers, instances, loadCalls, sN, sBuf, sK, sChunk, sPc,
         running, shutdown_event, started, frame_buffer, queues, output_queue,
         parameters, parameters_queue, is_prepared, paused, worker, event,
         delivered, notified, nextIn, nextOut, updates, budget, accepted, resized, prepared,
         track, session, dc, sender, app, fps, shared>>

(***************************************************************************)
(* Bounds of the model.                                                    *)
(***************************************************************************)
MaxLoads == 3          \* load calls per run
MaxSampleLen == 10     \* longest buffer handed to prepare_chunk
MaxBufferSize == 3     \* max_buffer_size given to the constructor (default 30)
MaxOutputQueueSize == 3     \* max_output_queue_size given to the constructor (default 8)
MaxParameterQueueSize == 2  \* max_parameter_queue_size given to the constructor (default 8)
MaxChunkIn == 2        \* largest input_size a pipeline asks for
MaxChunkOut == 2       \* most frames one pipeline call returns
MaxIn == 4             \* input frames received per run
MaxOut == 4            \* frames produced per run
MaxUpdates == 3        \* update_parameters calls per run
MaxMessages == 2       \* data channel messages per run
MaxNotifications == 4  \* notifications passed to NotificationSender.call per run
MaxCloses == 2         \* Session.close calls per run
MaxSessions == 2       \* sessions sharing the pipeline manager
MaxOffers == 2         \* WebRTC offers posted per run
MaxSamples == 3        \* calls of _calculate_pipeline_fps per run

(***************************************************************************)
(* PipelineManager                                                         *)
(***************************************************************************)
NOT_LOADED == "not_loaded"
LOADING == "loading"
LOADED == "loaded"
ERROR == "error"

None == "None"
NoPipeline == 0        \* self._pipeline = None; a loaded pipeline is object n >= 1

\* Pipeline ids a caller may pass: two that _load_pipeline_implementation knows,
\* one it rejects (ValueError), and None (id omitted).
KnownPipelineIds == {"longlive", "passthrough"}
PipelineIdArgs == KnownPipelineIds \cup {"bogus", None}
DefaultPipeline == "longlive"

\* load_params values: None, the empty dict, and two different dicts.
LoadParamArgs == {None, "{}", "{seed:42}", "{seed:43}"}

\* `x or {}`: None and the empty dict compare equal.
NormParams(p) == IF p = None THEN "{}" ELSE p

\* os.getenv("PIPELINE", "longlive") when pipeline_id is None
ResolveId(id) == IF id = None THEN DefaultPipeline ELSE id

ManagerInit ==
    [status |-> NOT_LOADED, pipeline |-> NoPipeline, pipeline_id |-> None,
     load_params |-> None, error_message |-> None]

NeverAlreadyLoaded(m, id, p) == FALSE

\* The early-return test of _load_pipeline_sync_wrapper, made before the id is
\* resolved against the environment.
AlreadyLoaded(m, id, p) ==
    /\ m.status = LOADED
    /\ m.pipeline_id = id
    /\ NormParams(m.load_params) = NormParams(p)

NeverUnload(m, id, p) == FALSE

\* The unload-first test of _load_pipeline_sync_wrapper.
NeedsUnload(m, id, p) ==
    /\ m.status = LOADED
    /\ (m.pipeline_id # id \/ NormParams(m.load_params) # NormParams(p))

\* _unload_pipeline_unsafe: the state is reset before resources are released.
UnloadUnsafe(m) ==
    [status |-> NOT_LOADED, pipeline |-> NoPipeline, pipeline_id |-> None,
     load_params |-> None, error_message |-> None]

ErrorMessage(id) == "Failed to load pipeline " \o id

\* State after a successful instantiation of object n.
LoadSucceeded(m, id, p, n) ==
    [m EXCEPT !.pipeline = n, !.pipeline_id = id, !.load_params = p, !.status = LOADED]

LoadFailedStaysLoading(m, id) == m

\* State after the except branch.
LoadFailed(m, id) ==
    [status |-> ERROR, pipeline |-> NoPipeline, pipeline_id |-> None,
     load_params |-> None, error_message |-> ErrorMessage(id)]

AvailableUnlessError(m) == m.status # ERROR

\* get_pipeline: the handle, or PipelineNotAvailableException.
PipelineAvailable(m) == m.status = LOADED /\ m.pipeline # NoPipeline

Callers == {"t1", "t2"}

\* during: the manager's status when the thread made its load call;
\* handle: the pipeline object get_pipeline returned.
CallerIdle ==
    [pc |-> "idle", op |-> "none", id |-> None, params |-> None, ret |-> None,
     events |-> <<>>, during |-> None, handle |-> NoPipeline]

AcquireUnlocked(l) == TRUE

\* `with self._lock`: a thread other than the owner gets the RLock only when
\* it is free (no thread of the model re-enters it).
CanAcquire(l) == l = "free"

InitPM ==
    /\ manager = ManagerInit
    /\ lock = "free"
    /\ callers = [t \in Callers |-> CallerIdle]
    /\ instances = 0
    /\ loadCalls = 0

InitSampleIdle ==
    /\ sN = 0
    /\ sBuf = <<>>
    /\ sK = 0
    /\ sChunk = <<>>
    /\ sPc = "off"

\* A thread enters _load_pipeline_sync_wrapper and waits for the lock.
LoadCall(t) ==
    /\ callers[t].pc = "idle"
    /\ loadCalls < MaxLoads
    /\ loadCalls' = loadCalls + 1
    /\ \E id \in PipelineIdArgs, p \in LoadParamArgs :
         callers' = [callers EXCEPT ![t] =
            [pc |-> "acquire", op |-> "load", id |-> id, params |-> p, ret |-> None,
             events |-> <<>>, during |-> manager.status, handle |-> NoPipeline]]
    /\ UNCHANGED <<manager, lock, instances, sampleVars, fpVars>>

\* With the lock: the early return, the unload of a different configuration,
\* the LOADING test, then status := LOADING.
LoadEnter(t) ==
    /\ callers[t].pc = "acquire"
    /\ callers[t].op = "load"
    /\ CanAcquire(lock)
    /\ LET c == callers[t]
           unload == NeedsUnload(manager, c.id, c.params)
           m1 == IF unload THEN UnloadUnsafe(manager) ELSE manager
           ev == IF unload THEN <<"unload">> ELSE <<>>
       IN  IF AlreadyLoaded(manager, c.id, c.params)
           THEN /\ callers' = [callers EXCEPT ![t].pc = "idle", ![t].ret = "True"]
                /\ UNCHANGED <<manager, lock>>
           ELSE IF m1.status = LOADING
           THEN /\ callers' = [callers EXCEPT ![t].pc = "idle", ![t].ret = "False",
                                              ![t].events = ev]
                /\ manager' = m1
                /\ UNCHANGED lock
           ELSE /\ manager' = [m1 EXCEPT !.status = LOADING, !.error_message = None]
                /\ lock' = t
                /\ callers' = [callers EXCEPT ![t].pc = "instantiate", ![t].events = ev,
                                              ![t].id = ResolveId(c.id)]
    /\ UNCHANGED <<instances, loadCalls, sampleVars, fpVars>>

\* _load_pipeline_implementation returns a pipeline object, or raises (an
\* unknown id always raises ValueError; a known one may fail to instantiate).
LoadInstantiate(t) ==
    /\ callers[t].pc = "instantiate"
    /\ lock = t
    /\ LET c == callers[t]
       IN  \E ok \in IF c.id \in KnownPipelineIds THEN {TRUE, FALSE} ELSE {FALSE} :
             IF ok
             THEN /\ instances' = instances + 1
                  /\ manager' = LoadSucceeded(manager, c.id, c.params, instances + 1)
                  /\ callers' = [callers EXCEPT ![t].pc = "idle", ![t].ret = "True",
                                    ![t].events = Append(@, "instantiate")]
             ELSE /\ instances' = instances
                  /\ manager' = LoadFailed(manager, c.id)
                  /\ callers' = [callers EXCEPT ![t].pc = "idle", ![t].ret = "False",
                                    ![t].events = Append(@, "instantiate_failed")]
    /\ lock' = "free"
    /\ UNCHANGED <<loadCalls, sampleVars, fpVars>>

\* unload_pipeline
UnloadPipeline(t) ==
    /\ callers[t].pc = "idle"
    /\ CanAcquire(lock)
    /\ manager' = UnloadUnsafe(manager)
    /\ callers' = [callers EXCEPT ![t] =
          [@ EXCEPT !.op = "unload", !.ret = None, !.events = <<"unload">>,
                    !.id = None, !.params = None, !.during = None,
                    !.handle = NoPipeline]]
    /\ UNCHANGED <<lock, instances, loadCalls, sampleVars, fpVars>>

\* get_pipeline
GetPipeline(t) ==
    /\ callers[t].pc = "idle"
    /\ CanAcquire(lock)
    /\ callers' = [callers EXCEPT ![t] =
          [@ EXCEPT !.op = "get", !.events = <<>>,
                    !.id = None, !.params = None, !.during = None,
                    !.handle = IF PipelineAvailable(manager)
                               THEN manager.pipeline ELSE NoPipeline,
                    !.ret = IF PipelineAvailable(manager)
                            THEN "pipeline" ELSE "PipelineNotAvailable"]]
    /\ UNCHANGED <<manager, lock, instances, loadCalls, sampleVars, fpVars>>

NextPM ==
    \E t \in Callers :
        \/ LoadCall(t)
        \/ LoadEnter(t)
        \/ LoadInstantiate(t)
        \/ UnloadPipeline(t)
        \/ GetPipeline(t)


(***************************************************************************)
(* Uniform sampling: FrameProcessor.prepare_chunk                          *)
(***************************************************************************)

RoundDown(num, den) == num \div den

\* Python's round() of the quotient num/den (num >= 0, den > 0): the nearest
\* integer, a half going to the even neighbour.  The source rounds the double
\* i * (len/chunk_size); for the buffer lengths of this model that product
\* rounds as the exact quotient does.
PyRound(num, den) ==
    LET q == num \div den
        r == num % den
    IN  IF 2 * r < den THEN q
        ELSE IF 2 * r > den THEN q + 1
        ELSE IF q % 2 = 0 THEN q ELSE q + 1

\* indices = [round(i * step) for i in range(chunk_size)], step = len/chunk_size
SampleIndices(n, k) == [j \in 1..k |-> PyRound((j - 1) * n, k)]

\* The frames prepare_chunk returns.
PrepareChunkFrames(buf, k) ==
    LET idx == SampleIndices(Len(buf), k)
    IN  [j \in 1..k |-> buf[idx[j] + 1]]

\* The buffer prepare_chunk leaves: last_idx + 1 frames popped from the left.
PrepareChunkRest(buf, k) ==
    LET idx == SampleIndices(Len(buf), k)
    IN  SubSeq(buf, idx[k] + 2, Len(buf))

\* A buffer of n frames, each named by its position 0..n-1, and a chunk size
\* the worker may ask for (it calls prepare_chunk only when len >= chunk_size).
InitSample ==
    /\ sN \in 1..MaxSampleLen
    /\ sBuf = [j \in 1..sN |-> j - 1]
    /\ sK \in 1..sN
    /\ sChunk = <<>>
    /\ sPc = "ready"

SampleStep ==
    /\ sPc = "ready"
    /\ sChunk' = PrepareChunkFrames(sBuf, sK)
    /\ sBuf' = PrepareChunkRest(sBuf, sK)
    /\ sPc' = "done"
    /\ UNCHANGED <<sN, sK, pmVars, fpVars>>

NextSample == SampleStep



(***************************************************************************)
(* FrameProcessor                                                          *)
(***************************************************************************)
OUTPUT_QUEUE_MAX_SIZE_FACTOR == 3
MIN_FPS == 1
MAX_FPS == 60
DEFAULT_FPS == 30
FPS_UPDATE_INTERVAL == 500  \* self.fps_update_interval = 0.5 s, in milliseconds

\* interface.py: parameters "only used in prepare() and should not be passed
\* to __call__()".
PREPARE_ONLY_PARAMS == {"prompt_interpolation_method", "reset_cache", "manage_cache"}

\* Parameter bags are dicts: functions from the keys they mention to values.
EmptyBag == [k \in {} |-> TRUE]
InitialParameters == {EmptyBag, [noise_scale |-> 1]}
UpdateBags ==
    { [paused |-> TRUE], [paused |-> FALSE], [noise_scale |-> 1],
      [noise_scale |-> 2, manage_cache |-> TRUE], [reset_cache |-> TRUE] }

\* dict.pop(k, None): the dict without k
DictPop(d, k) == [x \in (DOMAIN d) \ {k} |-> d[x]]

ReplaceParameters(cur, new) == new

\* {**self.parameters, **new_parameters}
MergeParameters(cur, new) ==
    [k \in (DOMAIN cur) \cup (DOMAIN new) |-> IF k \in DOMAIN new THEN new[k] ELSE cur[k]]

UnboundedAppend(buf, x, maxlen) == Append(buf, x)

\* deque(maxlen).append: a full deque discards its leftmost item.
DequeAppend(buf, x, maxlen) ==
    IF Len(buf) >= maxlen THEN Append(Tail(buf), x) ELSE Append(buf, x)

\* queue.Queue(maxsize)
NewQueue(maxsize) == [maxsize |-> maxsize, items |-> <<>>]
QueueNeverFull(q) == FALSE
\* put_nowait raises queue.Full when 0 < maxsize <= qsize
QueueFull(q) == Len(q.items) >= q.maxsize
QueueEmpty(q) == q.items = <<>>

CoalescingPut(items, bag, maxsize) ==
    IF Len(items) < maxsize THEN Append(items, bag)
    ELSE Append(SubSeq(items, 1, Len(items) - 1), bag)

\* parameters_queue.put_nowait(parameters) inside update_parameters: the queue
\* afterwards; queue.Full is caught and leaves it as it was.
ParametersPut(items, bag, maxsize) ==
    IF Len(items) < maxsize THEN Append(items, bag) ELSE items

TakeLast(items) == items[Len(items)]

\* parameters_queue.get_nowait(): the bag returned, and the queue left.
ParametersGet(items) == Head(items)
ParametersRest(items) == Tail(items)

WorkerLocal ==
    [pc |-> "none", pipeline |-> NoPipeline, should_prepare |-> FALSE, req |-> 0,
     input |-> <<>>, output |-> <<>>, old_queue |-> 0, error |-> None]

EventIdle == [pc |-> "idle", queue |-> 0, frame |-> 0, ret |-> None]

NoResize == [old |-> <<>>, new |-> <<>>, maxsize |-> 0]

\* Requirements a prepare call may return: None (written 0), or an input_size.
NoRequirements == 0
RequirementChoices == {NoRequirements} \cup (1..MaxChunkIn)

OOM == "CUDA out of memory"

\* The state after FrameProcessor.__init__, in an environment that puts at
\* most b.put frames, produces at most b.out and sends at most b.upd updates.
InitFPWith(b, initial_parameters) ==
    /\ running = FALSE
    /\ shutdown_event = FALSE
    /\ started = FALSE
    /\ frame_buffer = <<>>
    /\ queues = <<NewQueue(MaxOutputQueueSize)>>
    /\ output_queue = 1
    /\ parameters \in initial_parameters
    /\ parameters_queue = <<>>
    /\ is_prepared = FALSE
    /\ paused = FALSE
    /\ worker = WorkerLocal
    /\ event = EventIdle
    /\ delivered = <<>>
    /\ notified = <<>>
    /\ nextIn = 1
    /\ nextOut = 1
    /\ updates = 0
    /\ budget = b
    /\ accepted = parameters
    /\ resized = NoResize
    /\ prepared = {}

\* A session exists only once a pipeline is loaded (handle_offer's precondition).
InitPMLoaded ==
    /\ manager = LoadSucceeded(ManagerInit, "longlive", None, 1)
    /\ lock = "free"
    /\ callers = [t \in Callers |-> CallerIdle]
    /\ instances = 1
    /\ loadCalls = 1

envVars == <<lock, callers, instances, loadCalls, sampleVars, budget>>
otherVars == <<envVars, sessVars>>

\* ---------------------------------------------------------------- start
\* start(): running := True, the event is cleared, the worker thread starts.
StartThread ==
    /\ running' = TRUE
    /\ shutdown_event' = FALSE
    /\ started' = TRUE
    /\ worker' = [WorkerLocal EXCEPT !.pc = "loop"]
    /\ event' = EventIdle
    /\ UNCHANGED <<frame_buffer, queues, output_queue, parameters, parameters_queue,
                   is_prepared, paused, delivered, notified, nextIn, nextOut, updates,
                   accepted, resized, prepared, manager>>

\* start() on the frame processor of a session, created for it once.
Start ==
    /\ event.pc = "idle"
    /\ ~started
    /\ ~running
    /\ StartThread
    /\ UNCHANGED otherVars

\* ---------------------------------------------------------------- worker
\* worker_loop: while self.running and not self.shutdown_event.is_set()
WLoop ==
    /\ worker.pc = "loop"
    /\ worker' = [WorkerLocal EXCEPT !.pc = IF running /\ ~shutdown_event
                                            THEN "tick" ELSE "exited"]
    /\ UNCHANGED <<running, shutdown_event, started, frame_buffer, queues, output_queue,
                   parameters, parameters_queue, is_prepared, paused, event, delivered,
                   notified, nextIn, nextOut, updates, accepted, resized, prepared, manager,
                   otherVars>>

\* process_chunk: one non-blocking receive on the parameter queue, merged when
\* the bag differs from the current parameters.
WMerge ==
    /\ worker.pc = "tick"
    /\ IF parameters_queue # <<>>
       THEN LET new_parameters == ParametersGet(parameters_queue)
            IN  /\ parameters_queue' = ParametersRest(parameters_queue)
                /\ parameters' = IF new_parameters # parameters
                                 THEN MergeParameters(parameters, new_parameters)
                                 ELSE parameters
       ELSE UNCHANGED <<parameters, parameters_queue>>
    /\ worker' = [worker EXCEPT !.pc = "get_pipeline"]
    /\ UNCHANGED <<running, shutdown_event, started, frame_buffer, queues, output_queue,
                   is_prepared, paused, event, delivered, notified, nextIn, nextOut,
                   updates, accepted, resized, prepared, manager, otherVars>>

BufferKept(buf) == buf

\* with self.frame_buffer_lock: if self.frame_buffer: self.frame_buffer.clear()
BufferFlushed(buf) == IF buf # <<>> THEN <<>> ELSE buf

\* pipeline_manager.get_pipeline(); on PipelineNotAvailableException the
\* worker loop flushes the frame buffer and continues.
WGetPipeline ==
    /\ worker.pc = "get_pipeline"
    /\ lock = "free"
    /\ IF PipelineAvailable(manager)
       THEN /\ worker' = [worker EXCEPT !.pc = "pause", !.pipeline = manager.pipeline]
            /\ UNCHANGED frame_buffer
       ELSE /\ worker' = [worker EXCEPT !.pc = "loop"]
            /\ frame_buffer' = BufferFlushed(frame_buffer)
    /\ UNCHANGED <<running, shutdown_event, started, queues, output_queue, parameters,
                   parameters_queue, is_prepared, paused, event, delivered, notified,
                   nextIn, nextOut, updates, accepted, resized, prepared, manager, otherVars>>

PauseIgnored(cur, arg) == cur

\* paused = self.parameters.pop("paused", None)
\* if paused is not None and paused != self.paused: self.paused = paused
PauseApplied(cur, arg) == IF arg # {} /\ arg # {cur} THEN ~cur ELSE cur

\* The pause control, then reset_cache and the call of prepare.
WPause ==
    /\ worker.pc = "pause"
    /\ LET arg == IF "paused" \in DOMAIN parameters THEN {parameters["paused"]} ELSE {}
           p1 == DictPop(parameters, "paused")
           nowPaused == PauseApplied(paused, arg)
           reset_cache == "reset_cache" \in DOMAIN p1 /\ p1["reset_cache"]
       IN  /\ paused' = nowPaused
           /\ IF nowPaused
              THEN /\ parameters' = p1
                   /\ worker' = [worker EXCEPT !.pc = "loop"]
              ELSE /\ parameters' = DictPop(p1, "reset_cache")
                   /\ worker' = [worker EXCEPT !.pc = "prepare",
                                    !.should_prepare = (~is_prepared) \/ reset_cache]
    /\ UNCHANGED <<running, shutdown_event, started, frame_buffer, queues, output_queue,
                   parameters_queue, is_prepared, event, delivered, notified, nextIn,
                   nextOut, updates, accepted, resized, prepared, manager, otherVars>>

\* The keyword arguments of the prepare call and of the pipeline call.
CallKwargs == DOMAIN parameters

OnlyEmptyIsTooFew(buf, req) == buf = <<>>

\* if not self.frame_buffer or len(self.frame_buffer) < current_chunk_size
TooFewFrames(buf, req) == buf = <<>> \/ Len(buf) < req

\* prepare returns (or raises); with Requirements the buffer is sampled under
\* the buffer lock, or the tick ends when it holds too few frames.
WPrepare ==
    /\ worker.pc = "prepare"
    /\ \E outcome \in {"ok", "error", "oom"} :
         IF outcome = "ok"
         THEN /\ is_prepared' = TRUE
              /\ \E req \in RequirementChoices :
                   IF req = NoRequirements
                   THEN /\ worker' = [worker EXCEPT !.pc = "process", !.req = req]
                        /\ UNCHANGED frame_buffer
                   ELSE IF TooFewFrames(frame_buffer, req)
                   THEN /\ worker' = [worker EXCEPT !.pc = "loop", !.req = req]
                        /\ UNCHANGED frame_buffer
                   ELSE /\ worker' = [worker EXCEPT !.pc = "process", !.req = req,
                                         !.input = PrepareChunkFrames(frame_buffer, req)]
                        /\ frame_buffer' = PrepareChunkRest(frame_buffer, req)
         ELSE /\ worker' = [worker EXCEPT !.pc = IF outcome = "oom" THEN "stop" ELSE "loop",
                               !.error = IF outcome = "oom" THEN OOM ELSE None]
              /\ UNCHANGED <<is_prepared, frame_buffer>>
    /\ prepared' = prepared \cup {worker.pipeline}
    /\ UNCHANGED <<running, shutdown_event, started, queues, output_queue, parameters,
                   parameters_queue, paused, event, delivered, notified, nextIn, nextOut,
                   updates, accepted, resized, manager, otherVars>>

\* The pipeline call returns num_frames frames (or raises); the output queue
\* is replaced by a larger one when its maxsize is below 3 * num_frames.
WProcess ==
    /\ worker.pc = "process"
    /\ \/ \E num_frames \in 1..MaxChunkOut :
            /\ nextOut + num_frames <= budget.out + 1
            /\ LET output == [j \in 1..num_frames |-> nextOut + j - 1]
                   target == num_frames * OUTPUT_QUEUE_MAX_SIZE_FACTOR
               IN  /\ nextOut' = nextOut + num_frames
                   /\ IF queues[output_queue].maxsize < target
                      THEN /\ queues' = Append(queues, NewQueue(target))
                           /\ output_queue' = Len(queues) + 1
                           /\ worker' = [worker EXCEPT !.pc = "transfer", !.output = output,
                                                       !.old_queue = output_queue]
                           /\ resized' = [old |-> queues[output_queue].items,
                                          new |-> output, maxsize |-> target]
                      ELSE /\ worker' = [worker EXCEPT !.pc = "transfer", !.output = output]
                           /\ UNCHANGED <<queues, output_queue, resized>>
       \/ \E fatal \in BOOLEAN :
            /\ worker' = [worker EXCEPT !.pc = IF fatal THEN "stop" ELSE "loop",
                                        !.error = IF fatal THEN OOM ELSE None]
            /\ UNCHANGED <<queues, output_queue, resized, nextOut>>
    /\ UNCHANGED <<running, shutdown_event, started, frame_buffer, parameters,
                   parameters_queue, is_prepared, paused, event, delivered, notified,
                   nextIn, updates, accepted, prepared, manager, otherVars>>

\* while not old_queue.empty(): move one frame to the new queue
WTransfer ==
    /\ worker.pc = "transfer"
    /\ IF worker.old_queue # 0 /\ ~QueueEmpty(queues[worker.old_queue])
       THEN /\ queues' = [queues EXCEPT
                 ![worker.old_queue].items = Tail(@),
                 ![output_queue].items = Append(@, Head(queues[worker.old_queue].items))]
            /\ UNCHANGED worker
       ELSE /\ worker' = [worker EXCEPT !.pc = "enqueue", !.old_queue = 0]
            /\ UNCHANGED queues
    /\ UNCHANGED <<running, shutdown_event, started, frame_buffer, output_queue,
                   parameters, parameters_queue, is_prepared, paused, event, delivered,
                   notified, nextIn, nextOut, updates, accepted, resized, prepared, manager,
                   otherVars>>

\* for frame in output: put_nowait, a frame that finds the queue full is dropped
WEnqueue ==
    /\ worker.pc = "enqueue"
    /\ IF worker.output = <<>>
       THEN /\ worker' = [worker EXCEPT !.pc = "loop"]
            /\ UNCHANGED queues
       ELSE /\ worker' = [worker EXCEPT !.output = Tail(@)]
            /\ IF QueueFull(queues[output_queue])
               THEN UNCHANGED queues
               ELSE queues' = [queues EXCEPT ![output_queue].items =
                                                  Append(@, Head(worker.output))]
    /\ UNCHANGED <<running, shutdown_event, started, frame_buffer, output_queue,
                   parameters, parameters_queue, is_prepared, paused, event, delivered,
                   notified, nextIn, nextOut, updates, accepted, resized, prepared, manager,
                   otherVars>>

\* The notification stop() hands to notification_callback.
StopMessage(error_message) ==
    IF error_message = None
    THEN [type |-> "stream_stopped", error_message |-> None]
    ELSE [type |-> "stream_stopped", error_message |-> error_message]

\* stop(error_message) called by the worker itself after a non-recoverable
\* error: `if not self.running: return`; the worker loop breaks when stop
\* returns.
WStop ==
    /\ worker.pc = "stop"
    /\ worker' = [worker EXCEPT !.pc = IF ~running THEN "exited" ELSE "stop_set"]
    /\ UNCHANGED <<running, shutdown_event, started, frame_buffer, queues, output_queue,
                   parameters, parameters_queue, is_prepared, paused, event, delivered,
                   notified, nextIn, nextOut, updates, accepted, resized, prepared, manager,
                   otherVars>>

\* self.running = False; self.shutdown_event.set(); no join from the worker.
WStopSet ==
    /\ worker.pc = "stop_set"
    /\ running' = FALSE
    /\ shutdown_event' = TRUE
    /\ worker' = [worker EXCEPT !.pc = "stop_drain"]
    /\ UNCHANGED <<started, frame_buffer, queues, output_queue, parameters,
                   parameters_queue, is_prepared, paused, event, delivered, notified,
                   nextIn, nextOut, updates, accepted, resized, prepared, manager, otherVars>>

\* while not self.output_queue.empty(): self.output_queue.get_nowait()
WStopDrain ==
    /\ worker.pc = "stop_drain"
    /\ IF QueueEmpty(queues[output_queue])
       THEN /\ worker' = [worker EXCEPT !.pc = "stop_clear"]
            /\ UNCHANGED queues
       ELSE /\ queues' = [queues EXCEPT ![output_queue].items = Tail(@)]
            /\ UNCHANGED worker
    /\ UNCHANGED <<running, shutdown_event, started, frame_buffer, output_queue,
                   parameters, parameters_queue, is_prepared, paused, event, delivered,
                   notified, nextIn, nextOut, updates, accepted, resized, prepared, manager,
                   otherVars>>

\* frame_buffer.clear() under the lock, then the stop notification
WStopClear ==
    /\ worker.pc = "stop_clear"
    /\ frame_buffer' = <<>>
    /\ notified' = Append(notified, StopMessage(worker.error))
    /\ worker' = [worker EXCEPT !.pc = "exited"]
    /\ UNCHANGED <<running, shutdown_event, started, queues, output_queue, parameters,
                   parameters_queue, is_prepared, paused, event, delivered, nextIn,
                   nextOut, updates, accepted, resized, prepared, manager, otherVars>>

WorkerStep ==
    \/ WLoop
    \/ WMerge
    \/ WGetPipeline
    \/ WPause
    \/ WPrepare
    \/ WProcess
    \/ WTransfer
    \/ WEnqueue
    \/ WStop
    \/ WStopSet
    \/ WStopDrain
    \/ WStopClear

\* ------------------------------------------------------------ event loop
\* put(frame): the running test
PutCheck ==
    /\ event.pc = "idle"
    /\ started
    /\ nextIn <= budget.put
    /\ IF ~running
       THEN event' = [EventIdle EXCEPT !.ret = "False"]
       ELSE event' = [EventIdle EXCEPT !.pc = "put", !.frame = nextIn]
    /\ UNCHANGED <<running, shutdown_event, started, frame_buffer, queues, output_queue,
                   parameters, parameters_queue, is_prepared, paused, worker, delivered,
                   notified, nextIn, nextOut, updates, accepted, resized, prepared, manager,
                   otherVars>>

\* put(frame): with self.frame_buffer_lock: self.frame_buffer.append(frame)
PutAppend ==
    /\ event.pc = "put"
    /\ frame_buffer' = DequeAppend(frame_buffer, event.frame, MaxBufferSize)
    /\ nextIn' = nextIn + 1
    /\ event' = [event EXCEPT !.pc = "idle", !.ret = "True"]
    /\ UNCHANGED <<running, shutdown_event, started, queues, output_queue, parameters,
                   parameters_queue, is_prepared, paused, worker, delivered, notified,
                   nextOut, updates, accepted, resized, prepared, manager, otherVars>>

GetNeverRefused(r) == FALSE

\* get(): if not self.running: return None
GetRefused(r) == ~r

\* get(): the running test and the read of self.output_queue
GetCheck ==
    /\ event.pc = "idle"
    /\ started
    /\ IF GetRefused(running)
       THEN event' = [EventIdle EXCEPT !.ret = None]
       ELSE event' = [EventIdle EXCEPT !.pc = "get", !.queue = output_queue]
    /\ UNCHANGED <<running, shutdown_event, started, frame_buffer, queues, output_queue,
                   parameters, parameters_queue, is_prepared, paused, worker, delivered,
                   notified, nextIn, nextOut, updates, accepted, resized, prepared, manager,
                   otherVars>>

\* get(): get_nowait() on the queue object that was read
GetPop ==
    /\ event.pc = "get"
    /\ IF QueueEmpty(queues[event.queue])
       THEN /\ event' = [event EXCEPT !.pc = "idle", !.ret = None, !.queue = 0]
            /\ UNCHANGED <<queues, delivered>>
       ELSE /\ event' = [event EXCEPT !.pc = "idle", !.ret = "frame", !.queue = 0]
            /\ delivered' = Append(delivered, Head(queues[event.queue].items))
            /\ queues' = [queues EXCEPT ![event.queue].items = Tail(@)]
    /\ UNCHANGED <<running, shutdown_event, started, frame_buffer, output_queue,
                   parameters, parameters_queue, is_prepared, paused, worker, notified,
                   nextIn, nextOut, updates, accepted, resized, prepared, manager, otherVars>>

\* update_parameters(bag): put_nowait; queue.Full returns False, an accepted
\* put falls off the end of the function (None).
UpdateCall(bag) ==
    /\ event.pc = "idle"
    /\ updates' = updates + 1
    /\ LET full == Len(parameters_queue) >= MaxParameterQueueSize
       IN  /\ parameters_queue' = ParametersPut(parameters_queue, bag, MaxParameterQueueSize)
           /\ accepted' = IF full THEN accepted ELSE MergeParameters(accepted, bag)
           /\ event' = [EventIdle EXCEPT !.ret = IF full THEN "False" ELSE None]
    /\ UNCHANGED <<running, shutdown_event, started, frame_buffer, queues, output_queue,
                   parameters, is_prepared, paused, worker, delivered, notified, nextIn,
                   nextOut, resized, prepared, manager>>

\* update_parameters called with any bag of UpdateBags.
UpdateParameters ==
    /\ updates < budget.upd
    /\ \E bag \in UpdateBags : UpdateCall(bag)
    /\ UNCHANGED otherVars

\* stop() called on the event loop (track stop, session close):
\* `if not self.running: return`
StopCall ==
    /\ event.pc = "idle"
    /\ started
    /\ event' = IF ~running THEN EventIdle ELSE [EventIdle EXCEPT !.pc = "stop_set"]
    /\ UNCHANGED <<running, shutdown_event, started, frame_buffer, queues, output_queue,
                   parameters, parameters_queue, is_prepared, paused, worker, delivered,
                   notified, nextIn, nextOut, updates, accepted, resized, prepared, manager>>

\* stop() called by any caller on the event loop.
StopBegin == StopCall /\ UNCHANGED otherVars

\* self.running = False; self.shutdown_event.set()
StopSet ==
    /\ event.pc = "stop_set"
    /\ running' = FALSE
    /\ shutdown_event' = TRUE
    /\ event' = [event EXCEPT !.pc = "stop_join"]
    /\ UNCHANGED <<started, frame_buffer, queues, output_queue, parameters,
                   parameters_queue, is_prepared, paused, worker, delivered, notified,
                   nextIn, nextOut, updates, accepted, resized, prepared, manager, otherVars>>

\* worker_thread.join(timeout=5.0): returns when the worker has exited, or
\* after the timeout while the worker is still inside a pipeline call.
StopJoin ==
    /\ event.pc = "stop_join"
    /\ worker.pc \in {"exited", "prepare", "process"}
    /\ event' = [event EXCEPT !.pc = "stop_drain"]
    /\ UNCHANGED <<running, shutdown_event, started, frame_buffer, queues, output_queue,
                   parameters, parameters_queue, is_prepared, paused, worker, delivered,
                   notified, nextIn, nextOut, updates, accepted, resized, prepared, manager,
                   otherVars>>

StopDrain ==
    /\ event.pc = "stop_drain"
    /\ IF QueueEmpty(queues[output_queue])
       THEN /\ event' = [event EXCEPT !.pc = "stop_clear"]
            /\ UNCHANGED queues
       ELSE /\ queues' = [queues EXCEPT ![output_queue].items = Tail(@)]
            /\ UNCHANGED event
    /\ UNCHANGED <<running, shutdown_event, started, frame_buffer, output_queue,
                   parameters, parameters_queue, is_prepared, paused, worker, delivered,
                   notified, nextIn, nextOut, updates, accepted, resized, prepared, manager,
                   otherVars>>

StopClear ==
    /\ event.pc = "stop_clear"
    /\ frame_buffer' = <<>>
    /\ notified' = Append(notified, StopMessage(None))
    /\ event' = [event EXCEPT !.pc = "idle"]
    /\ UNCHANGED <<running, shutdown_event, started, queues, output_queue, parameters,
                   parameters_queue, is_prepared, paused, worker, delivered, nextIn,
                   nextOut, updates, accepted, resized, prepared, manager, otherVars>>

FrameStep ==
    \/ PutCheck
    \/ PutAppend
    \/ GetCheck
    \/ GetPop

StopStep ==
    \/ StopBegin
    \/ StopSet
    \/ StopJoin
    \/ StopDrain
    \/ StopClear

\* A frame processor that is constructed and never started.
InitFPOff == InitFPWith([put |-> 0, out |-> 0, upd |-> 0], {EmptyBag})

\* Frames flow in and out; the parameters are the initial ones.
InitFPFrames == InitFPWith([put |-> MaxIn, out |-> MaxOut, upd |-> 0], {[noise_scale |-> 1]})
NextFP == Start \/ WorkerStep \/ FrameStep \/ StopStep

\* Parameter updates arrive; the pipeline is generative and produces little.
InitFPParams == InitFPWith([put |-> 0, out |-> 1, upd |-> MaxUpdates], InitialParameters)
NextParams == Start \/ WorkerStep \/ UpdateParameters \/ StopStep

(***************************************************************************)
(* Session: VideoProcessingTrack, data channel handler, Session.close,     *)
(* NotificationSender                                                      *)
(***************************************************************************)
\* The attributes a VideoProcessingTrack has: those tracks.py defines and
\* those of aiortc's MediaStreamTrack (id, kind, readyState, recv, stop).
TrackAttributes ==
    {"kind", "id", "readyState", "pipeline_manager", "initial_parameters",
     "notification_callback", "fps", "frame_ptime", "frame_timestamps",
     "last_frame_time", "fps_update_interval", "last_fps_update", "min_fps",
     "max_fps", "frame_processor", "input_task", "input_task_running",
     "_calculate_dynamic_fps", "_update_fps_if_needed", "get_current_fps",
     "input_loop", "next_timestamp", "initialize_output_processing",
     "initialize_input_processing", "recv", "stop"}

\* Looking up a name the track does not have raises AttributeError.
TrackHasAttr(name) == name \in TrackAttributes

\* VideoProcessingTrack.__init__; has_input: input_task is not None.
\* processors: FrameProcessor objects created for the track; recv_raised: a
\* recv() ended with "Track stopped"; loop_ended: why input_loop has ended.
TrackInit ==
    [input_task_running |-> FALSE, has_input |-> FALSE, readyState |-> "live",
     processors |-> 0, recv_raised |-> FALSE, loop_ended |-> None]

\* Session with its peer connection; pc: position of the close() coroutine.
\* stop_raises: whether awaiting MediaStreamTrack.stop() raises in the
\* installed aiortc (its stop() is not part of this repository).
SessionInit(state, raises) ==
    [connectionState |-> state, pc |-> "idle", closes |-> 0, pc_closes |-> 0,
     stop_raises |-> raises]

\* No message handled yet. paused: the last value a client sent under the key
\* paused; live: the track had a frame processor when the message came.
DcInit ==
    [n |-> 0, paused |-> None, bag |-> EmptyBag, applied |-> FALSE,
     forwarded |-> FALSE, live |-> FALSE]

\* NotificationSender.__init__, with no data channel yet. scheduled: the
\* send_sync callbacks posted with call_soon_threadsafe; early: the messages
\* that were pending when set_data_channel ran; wpc, wmsg: a call() running
\* on the worker thread; flush: a flush running on the event thread.
SenderInit ==
    [data_channel |-> None, readyState |-> "none", pending |-> <<>>,
     scheduled |-> <<>>, sent |-> <<>>, failed |-> <<>>, calls |-> 0,
     early |-> <<>>, wpc |-> "idle", wmsg |-> 0, flush |-> "idle"]

\* WebRTCManager.__init__: no session; no offer handled yet.
AppInit == [offers |-> 0, response |-> 0, sessions |-> 0, pcs |-> 0, loaded |-> FALSE]

\* FrameProcessor.__init__, FPS tracking: processing_time_per_frame is empty,
\* current_pipeline_fps is DEFAULT_FPS. Times are in milliseconds; a value
\* of frames per second is kept as the fraction <<numerator, denominator>>.
FpsInit ==
    [times |-> <<>>, last_fps_update |-> 0, now |-> 0,
     current_pipeline_fps |-> <<DEFAULT_FPS, 1>>, published |-> 0, samples |-> 0,
     skipped |-> 0]

Sessions == 1..MaxSessions

\* No session has a worker inside process_chunk.
SharedInit == [s \in Sessions |-> [pc |-> "idle", handle |-> NoPipeline]]

InitAppOff ==
    /\ app = AppInit
    /\ fps = FpsInit
    /\ shared = SharedInit

InitSessionOff ==
    /\ track = TrackInit
    /\ session = SessionInit("connected", FALSE)
    /\ dc = DcInit
    /\ sender = SenderInit
    /\ InitAppOff

\* What a step of the session that does not touch the frame processor keeps.
fpUnchanged ==
    UNCHANGED <<running, shutdown_event, started, frame_buffer, queues, output_queue,
                parameters, parameters_queue, is_prepared, paused, worker, event,
                delivered, notified, nextIn, nextOut, updates, accepted, resized, prepared,
                manager>>

\* The event loop is not inside a synchronous stretch of Session.close().
LoopFree == event.pc = "idle" /\ session.pc \in {"idle", "await_input", "pc_closing"}

\* pc.on("track"): initialize_input_processing starts the input loop.
OnTrack ==
    /\ LoopFree
    /\ ~track.has_input
    /\ session.closes = 0
    /\ track' = [track EXCEPT !.input_task_running = TRUE, !.has_input = TRUE]
    /\ UNCHANGED <<pmVars, sampleVars, running, shutdown_event, started, frame_buffer,
                   queues, output_queue, parameters, parameters_queue, is_prepared,
                   paused, worker, event, delivered, notified, nextIn, nextOut, updates,
                   budget, accepted, resized, prepared, session, dc, sender, app, fps, shared>>

AlwaysNeedsProcessor(n) == TRUE

\* initialize_output_processing(): if not self.frame_processor
NeedsProcessor(n) == n = 0

\* recv(), first call: initialize_output_processing creates and starts the
\* frame processor; recv() then polls it while input_task_running, and
\* raises "Track stopped" when the input loop is not running. The RTP sender
\* pulls its first frame before the session is closed.
RecvInit ==
    /\ LoopFree
    /\ session.closes = 0
    /\ NeedsProcessor(track.processors)
    /\ StartThread
    /\ track' = [track EXCEPT !.processors = @ + 1,
                              !.recv_raised = @ \/ ~track.input_task_running]
    /\ UNCHANGED <<envVars, session, dc, sender, app, fps, shared>>

\* recv(), a later call that finds the input loop not running: the frame
\* processor exists already, the while loop is skipped, "Track stopped".
RecvStopped ==
    /\ LoopFree
    /\ ~NeedsProcessor(track.processors)
    /\ ~track.input_task_running
    /\ track' = [track EXCEPT !.recv_raised = TRUE]
    /\ fpUnchanged
    /\ UNCHANGED <<envVars, session, dc, sender, app, fps, shared>>

\* input_loop(): a frame of the remote track arrives before the frame
\* processor exists; self.frame_processor.put raises AttributeError on None,
\* the except clause ends the loop.
InputLoopError ==
    /\ LoopFree
    /\ track.input_task_running
    /\ NeedsProcessor(track.processors)
    /\ track' = [track EXCEPT !.input_task_running = FALSE, !.loop_ended = "put_error"]
    /\ fpUnchanged
    /\ UNCHANGED <<envVars, session, dc, sender, app, fps, shared>>

\* input_loop(): await self.track.recv() raises (the remote track ended).
InputLoopRecvError ==
    /\ LoopFree
    /\ track.input_task_running
    /\ track' = [track EXCEPT !.input_task_running = FALSE, !.loop_ended = "recv_error"]
    /\ fpUnchanged
    /\ UNCHANGED <<envVars, session, dc, sender, app, fps, shared>>

\* recv(): while self.input_task_running: frame_processor.get()
RecvPoll == LoopFree /\ track.input_task_running /\ GetCheck

\* input_loop(): while self.input_task_running: frame_processor.put(frame)
InputLoopPut == LoopFree /\ track.input_task_running /\ PutCheck

\* ------------------------------------------------- data channel messages
MessageBags == UpdateBags

\* on_data_channel_message(message): a bag with the key paused first calls
\* session.video_track.pause(...); any exception is caught and logged by the
\* handler, which then returns without forwarding the bag.
OnDataChannelMessage ==
    /\ LoopFree
    /\ dc.n < MaxMessages
    /\ \E bag \in MessageBags :
         LET hasPaused == "paused" \in DOMAIN bag
             raised == \/ hasPaused /\ ~TrackHasAttr("pause")
                       \/ ~started
             p == IF hasPaused THEN (IF bag["paused"] THEN "True" ELSE "False")
                  ELSE dc.paused
         IN  /\ dc' = [n |-> dc.n + 1, paused |-> p, bag |-> bag,
                       applied |-> hasPaused /\ TrackHasAttr("pause"),
                       forwarded |-> ~raised, live |-> started]
             /\ IF raised
                THEN UNCHANGED <<running, shutdown_event, started, frame_buffer, queues,
                                 output_queue, parameters, parameters_queue, is_prepared,
                                 paused, worker, event, delivered, notified, nextIn,
                                 nextOut, updates, accepted, resized, prepared, manager>>
                ELSE UpdateCall(bag)
    /\ UNCHANGED <<envVars, track, session, sender, app, fps, shared>>

\* ----------------------------------------------------------- Session.close
PcNeedsCloseAlways(state) == TRUE

\* if self.pc.connectionState not in ["closed", "failed"]
PcNeedsClose(state) == state \notin {"closed", "failed"}

\* close() -> video_track.stop(): input_task_running = False, the input task
\* is cancelled and awaited (when there is one).
CloseBegin ==
    /\ session.pc = "idle"
    /\ event.pc = "idle"
    /\ session.closes < MaxCloses
    /\ track' = [track EXCEPT !.input_task_running = FALSE]
    /\ session' = [session EXCEPT !.closes = @ + 1,
                      !.pc = IF track.has_input THEN "await_input" ELSE "fp_stop"]
    /\ fpUnchanged
    /\ UNCHANGED <<envVars, dc, sender, app, fps, shared>>

\* The cancelled input task has ended.
CloseInputAwaited ==
    /\ session.pc = "await_input"
    /\ event.pc = "idle"
    /\ session' = [session EXCEPT !.pc = "fp_stop"]
    /\ fpUnchanged
    /\ UNCHANGED <<envVars, track, dc, sender, app, fps, shared>>

\* if self.frame_processor is not None: self.frame_processor.stop()
CloseStopProcessor ==
    /\ session.pc = "fp_stop"
    /\ session' = [session EXCEPT !.pc = "fp_stopping"]
    /\ IF started THEN StopCall ELSE event.pc = "idle" /\ fpUnchanged
    /\ UNCHANGED <<envVars, track, dc, sender, app, fps, shared>>

\* await super().stop(): the track ends; an exception raised here is caught
\* by close(), which logs it and returns.
CloseSuperStop ==
    /\ session.pc = "fp_stopping"
    /\ event.pc = "idle"
    /\ track' = [track EXCEPT !.readyState = "ended"]
    /\ session' = [session EXCEPT !.pc = IF session.stop_raises THEN "idle" ELSE "pc_check"]
    /\ fpUnchanged
    /\ UNCHANGED <<envVars, dc, sender, app, fps, shared>>

\* the connectionState test and the call of pc.close()
ClosePcCheck ==
    /\ session.pc = "pc_check"
    /\ event.pc = "idle"
    /\ session' = IF PcNeedsClose(session.connectionState)
                  THEN [session EXCEPT !.pc = "pc_closing", !.pc_closes = @ + 1]
                  ELSE [session EXCEPT !.pc = "idle"]
    /\ fpUnchanged
    /\ UNCHANGED <<envVars, track, dc, sender, app, fps, shared>>

\* pc.close() has completed.
ClosePcClosed ==
    /\ session.pc = "pc_closing"
    /\ event.pc = "idle"
    /\ session' = [session EXCEPT !.pc = "idle", !.connectionState = "closed"]
    /\ fpUnchanged
    /\ UNCHANGED <<envVars, track, dc, sender, app, fps, shared>>

CloseStep ==
    \/ CloseBegin
    \/ CloseInputAwaited
    \/ CloseStopProcessor
    \/ CloseSuperStop
    \/ ClosePcCheck
    \/ ClosePcClosed

\* ------------------------------------------------------ NotificationSender
senderUnchanged ==
    UNCHANGED <<pmVars, sampleVars, running, shutdown_event, started, frame_buffer,
                queues, output_queue, parameters, parameters_queue, is_prepared,
                paused, worker, event, delivered, notified, nextIn, nextOut, updates,
                budget, accepted, resized, prepared, track, session, dc, app, fps, shared>>

\* flush_pending_notifications: every pending message is posted to the event
\* loop (_send_message_threadsafe), in list order; the list is then cleared.
Flush(scheduled, pending) == scheduled \o pending

\* call(message): posted when a data channel is bound and open, else queued.
NotifyCall ==
    /\ sender.calls < MaxNotifications
    /\ LET m == sender.calls + 1
       IN  sender' =
             IF sender.data_channel # None /\ sender.readyState = "open"
             THEN [sender EXCEPT !.calls = m, !.scheduled = Append(@, m)]
             ELSE [sender EXCEPT !.calls = m, !.pending = Append(@, m)]
    /\ senderUnchanged

\* pc.on("datachannel"): set_data_channel binds the channel and flushes. The
\* channel handed over is open already, or still connecting.
SetDataChannel ==
    /\ sender.data_channel = None
    /\ \E state \in {"connecting", "open"} :
         sender' = [sender EXCEPT !.data_channel = "dc", !.readyState = state,
                                  !.early = sender.pending,
                                  !.scheduled = Flush(sender.scheduled, sender.pending),
                                  !.pending = <<>>]
    /\ senderUnchanged

\* data_channel.on("open"): flush_pending_notifications again
OnDataChannelOpen ==
    /\ sender.data_channel # None
    /\ sender.readyState = "connecting"
    /\ sender' = [sender EXCEPT !.readyState = "open",
                                !.scheduled = Flush(sender.scheduled, sender.pending),
                                !.pending = <<>>]
    /\ senderUnchanged

\* send_sync, run by the event loop: data_channel.send(message_str); a send
\* on a channel that is not open raises, which is caught and logged.
SendSync ==
    /\ sender.scheduled # <<>>
    /\ sender.flush = "idle"
    /\ sender' =
         IF sender.readyState = "open"
         THEN [sender EXCEPT !.scheduled = Tail(@), !.sent = Append(@, Head(sender.scheduled))]
         ELSE [sender EXCEPT !.scheduled = Tail(@), !.failed = Append(@, Head(sender.scheduled))]
    /\ senderUnchanged

\* ---------------------- NotificationSender.call made on the worker thread
\* FrameProcessor.stop(error_message) runs notification_callback on the
\* worker thread, while set_data_channel and the flush on open run on the
\* event thread; neither takes a lock.
\* call(message), its test: with an open channel the send is posted at once,
\* otherwise the message is about to be appended to pending_notifications.
WorkerNotifyCheck ==
    /\ sender.wpc = "idle"
    /\ sender.calls < MaxNotifications
    /\ LET m == sender.calls + 1
       IN  sender' =
             IF sender.data_channel # None /\ sender.readyState = "open"
             THEN [sender EXCEPT !.calls = m, !.scheduled = Append(@, m)]
             ELSE [sender EXCEPT !.calls = m, !.wpc = "append", !.wmsg = m]
    /\ senderUnchanged

\* call(message): self.pending_notifications.append(message)
WorkerNotifyAppend ==
    /\ sender.wpc = "append"
    /\ sender' = [sender EXCEPT !.pending = Append(@, sender.wmsg),
                                !.wpc = "idle", !.wmsg = 0]
    /\ senderUnchanged

\* flush_pending_notifications up to the end of its for loop: nothing to do
\* for an empty list, else every message is posted and clear() is next.
FlushPosted(sd) ==
    IF sd.pending = <<>> THEN sd
    ELSE [sd EXCEPT !.scheduled = Flush(sd.scheduled, sd.pending), !.flush = "clear"]

\* set_data_channel on the event thread: bind, then the flush's loop
BindChannel ==
    /\ sender.data_channel = None
    /\ sender.flush = "idle"
    /\ \E state \in {"connecting", "open"} :
         sender' = FlushPosted([sender EXCEPT !.data_channel = "dc", !.readyState = state,
                                              !.early = sender.pending])
    /\ senderUnchanged

\* on_data_channel_open on the event thread: the flush's loop
OpenFlush ==
    /\ sender.data_channel # None
    /\ sender.readyState = "connecting"
    /\ sender.flush = "idle"
    /\ sender' = FlushPosted([sender EXCEPT !.readyState = "open"])
    /\ senderUnchanged

\* flush_pending_notifications: self.pending_notifications.clear()
FlushClear ==
    /\ sender.flush = "clear"
    /\ sender' = [sender EXCEPT !.pending = <<>>, !.flush = "idle"]
    /\ senderUnchanged

\* ------------------------------------------------------- app.py: offers
\* is_loaded(): self._status == PipelineStatus.LOADED, under the lock
IsLoaded(m) == m.status = LOADED

\* except Exception as e: raise HTTPException(status_code=500, ...). The
\* handler's except clause also catches the HTTPException raised in its try.
HandlerExcept(status) == 500

\* POST /api/v1/webrtc/offer. Without a loaded pipeline HTTPException(400) is
\* raised inside the try block; otherwise handle_offer creates the peer
\* connection and registers the session, and it removes the session again
\* when building the answer fails.
HandleWebrtcOffer ==
    /\ app.offers < MaxOffers
    /\ CanAcquire(lock)
    /\ \/ /\ ~IsLoaded(manager)
          /\ app' = [app EXCEPT !.offers = @ + 1, !.loaded = FALSE,
                                !.response = HandlerExcept(400)]
       \/ /\ IsLoaded(manager)
          /\ \E failed \in BOOLEAN :
               app' = [app EXCEPT !.offers = @ + 1, !.loaded = TRUE,
                                  !.pcs = @ + 1,
                                  !.sessions = IF failed THEN @ ELSE @ + 1,
                                  !.response = IF failed THEN HandlerExcept(500) ELSE 200]
    /\ UNCHANGED <<pmVars, sampleVars, running, shutdown_event, started, frame_buffer,
                   queues, output_queue, parameters, parameters_queue, is_prepared,
                   paused, worker, event, delivered, notified, nextIn, nextOut, updates,
                   budget, accepted, resized, prepared, track, session, dc, sender, fps, shared>>

\* ------------------------------------- FrameProcessor: FPS calculation
\* Fractions <<numerator, denominator>> with a positive denominator.
FracLeq(a, b) == a[1] * b[2] <= b[1] * a[2]
FracMax(a, b) == IF FracLeq(a, b) THEN b ELSE a
FracMin(a, b) == IF FracLeq(a, b) THEN a ELSE b

\* processing time (ms) and number of frames of one pipeline call
ProcessingTimes == {0, 1, 10, 600, 2000}
FrameCounts == {0, 1, 3}

\* deque(maxlen=2).append
TimesAppend(q, x) == IF Len(q) < 2 THEN Append(q, x) ELSE Append(Tail(q), x)

\* sum(self.processing_time_per_frame) / len(self.processing_time_per_frame)
AvgTimePerFrame(q) ==
    IF Len(q) = 1 THEN q[1]
    ELSE <<q[1][1] * q[2][2] + q[2][1] * q[1][2], q[1][2] * q[2][2] * 2>>

\* 1.0 / avg_time_per_frame if avg_time_per_frame > 0 else current_fps
EstimatedFps(avg, current_fps) ==
    IF avg[1] > 0 THEN <<1000 * avg[2], avg[1]>> ELSE current_fps

Unclamped(x) == x

\* max(self.min_fps, min(self.max_fps, estimated_fps))
Clamp(x) == FracMax(<<MIN_FPS, 1>>, FracMin(<<MAX_FPS, 1>>, x))

\* _calculate_pipeline_fps(start_time, num_frames), called after a pipeline
\* call that took processing_time and produced num_frames frames.
CalculatePipelineFps ==
    /\ fps.samples < MaxSamples
    /\ \E processing_time \in ProcessingTimes, num_frames \in FrameCounts :
         LET current_time == fps.now + processing_time
             counted == [fps EXCEPT !.samples = @ + 1, !.now = current_time]
             times == TimesAppend(fps.times, <<processing_time, num_frames>>)
         IN  fps' =
               IF processing_time <= 0 \/ num_frames <= 0
               THEN [counted EXCEPT !.skipped = @ + 1]
               ELSE IF current_time - fps.last_fps_update >= FPS_UPDATE_INTERVAL
               THEN [counted EXCEPT
                       !.times = times,
                       !.current_pipeline_fps =
                           Clamp(EstimatedFps(AvgTimePerFrame(times),
                                              fps.current_pipeline_fps)),
                       !.published = @ + 1,
                       !.last_fps_update = current_time]
               ELSE [counted EXCEPT !.times = times]
    /\ UNCHANGED <<pmVars, sampleVars, running, shutdown_event, started, frame_buffer,
                   queues, output_queue, parameters, parameters_queue, is_prepared,
                   paused, worker, event, delivered, notified, nextIn, nextOut, updates,
                   budget, accepted, resized, prepared, track, session, dc, sender, app, shared>>

\* get_current_pipeline_fps(): the published value
GetCurrentPipelineFps == fps.current_pipeline_fps

\* ---------------------- sessions sharing the manager: process_chunk calls
\* Each session's frame processor has its own worker thread; all of them
\* were given the same PipelineManager (handle_offer, VideoProcessingTrack).
sharedUnchanged ==
    UNCHANGED <<lock, callers, instances, loadCalls, sampleVars, running, shutdown_event,
                started, frame_buffer, queues, output_queue, parameters,
                parameters_queue, is_prepared, paused, worker, event, delivered,
                notified, nextIn, nextOut, updates, budget, accepted, resized, prepared, track,
                session, dc, sender, app, fps, manager>>

\* pipeline = self.pipeline_manager.get_pipeline(): under the manager's lock,
\* which is released when the call returns; PipelineNotAvailableException
\* ends the chunk.
SharedGetPipeline(s) ==
    /\ shared[s].pc = "idle"
    /\ CanAcquire(lock)
    /\ shared' = [shared EXCEPT ![s] =
          IF PipelineAvailable(manager)
          THEN [pc |-> "got", handle |-> manager.pipeline]
          ELSE [pc |-> "idle", handle |-> NoPipeline]]
    /\ sharedUnchanged

\* requirements = pipeline.prepare(...) begins
SharedPrepareBegin(s) ==
    /\ shared[s].pc = "got"
    /\ shared' = [shared EXCEPT ![s].pc = "prepare"]
    /\ sharedUnchanged

\* prepare has returned; output = pipeline(input, **self.parameters) begins,
\* or the chunk ends for lack of input frames.
SharedCallBegin(s) ==
    /\ shared[s].pc = "prepare"
    /\ \E enough \in BOOLEAN :
         shared' = [shared EXCEPT ![s] =
            IF enough THEN [@ EXCEPT !.pc = "call"]
            ELSE [pc |-> "idle", handle |-> NoPipeline]]
    /\ sharedUnchanged

\* the pipeline call has returned (or raised); process_chunk ends
SharedCallEnd(s) ==
    /\ shared[s].pc = "call"
    /\ shared' = [shared EXCEPT ![s] = [pc |-> "idle", handle |-> NoPipeline]]
    /\ sharedUnchanged

\* The session's worker is inside prepare or inside the pipeline call.
Executing(s) == shared[s].pc \in {"prepare", "call"}

\* ------------------------------------------------ session specifications
\* A track with its frame processor and the data channel handler.
InitFPChannel == InitFPWith([put |-> 0, out |-> 2, upd |-> 0], {[noise_scale |-> 1]})
NextChannel ==
    \/ OnTrack
    \/ RecvInit
    \/ RecvPoll
    \/ GetPop
    \/ WorkerStep
    \/ OnDataChannelMessage

\* A session that is closed, up to MaxCloses times, one call after the other
\* (remove_session pops the session before it closes it, and the handler of
\* connectionstatechange runs once the connection state is final).
InitFPClose == InitFPWith([put |-> 1, out |-> 1, upd |-> 0], {[noise_scale |-> 1]})
InitSessionClose ==
    /\ track = TrackInit
    /\ \E state \in {"connected", "failed", "closed"}, raises \in BOOLEAN :
         session = SessionInit(state, raises)
    /\ dc = DcInit
    /\ sender = SenderInit
    /\ InitAppOff
NextClose ==
    \/ OnTrack
    \/ RecvInit
    \/ RecvPoll
    \/ GetPop
    \/ InputLoopPut
    \/ InputLoopError
    \/ PutAppend
    \/ WorkerStep
    \/ CloseStep
    \/ StopSet
    \/ StopJoin
    \/ StopDrain
    \/ StopClear

\* The ingress loop and the egress recv() of one track, in either order.
InitFPIngress == InitFPWith([put |-> 2, out |-> 1, upd |-> 0], {[noise_scale |-> 1]})
NextIngress ==
    \/ OnTrack
    \/ RecvInit
    \/ RecvStopped
    \/ RecvPoll
    \/ GetPop
    \/ InputLoopPut
    \/ InputLoopError
    \/ InputLoopRecvError
    \/ PutAppend
    \/ WorkerStep

\* The notification sender and its data channel.
NextNotify == NotifyCall \/ SetDataChannel \/ OnDataChannelOpen \/ SendSync

(***************************************************************************)
(* Specifications                                                          *)
(***************************************************************************)
\* The pipeline manager called by two threads.
InitSpecPM == InitPM /\ InitSampleIdle /\ InitFPOff /\ InitSessionOff
SpecPM == InitSpecPM /\ [][NextPM]_vars

\* prepare_chunk applied to every buffer length and chunk size in the bounds.
InitSpecSample == InitPM /\ InitSample /\ InitFPOff /\ InitSessionOff
SpecSample == InitSpecSample /\ [][NextSample]_vars

\* One frame processor, its worker thread against the event loop: frames.
InitSpecFP == InitPMLoaded /\ InitSampleIdle /\ InitFPFrames /\ InitSessionOff
SpecFP == InitSpecFP /\ [][NextFP]_vars

\* One frame processor, its worker thread against the event loop: parameters.
InitSpecParams == InitPMLoaded /\ InitSampleIdle /\ InitFPParams /\ InitSessionOff
SpecParams == InitSpecParams /\ [][NextParams]_vars

\* The same, with a worker thread that is always scheduled again.
SpecParamsLive == SpecParams /\ WF_vars(WorkerStep)

\* The egress track, its frame processor and the data channel messages.
InitSpecChannel ==
    /\ InitPMLoaded /\ InitSampleIdle /\ InitFPChannel
    /\ track = TrackInit /\ session = SessionInit("connected", FALSE)
    /\ dc = DcInit /\ sender = SenderInit
    /\ InitAppOff
SpecChannel == InitSpecChannel /\ [][NextChannel]_vars

\* Session.close on a session with a track and its frame processor.
InitSpecClose == InitPMLoaded /\ InitSampleIdle /\ InitFPClose /\ InitSessionClose
SpecClose == InitSpecClose /\ [][NextClose]_vars

\* Offers posted while the pipeline manager loads and unloads.
\* (one load call per run, by any thread, with any arguments)
NextOffer ==
    \/ \E t \in Callers :
          \/ loadCalls = 0 /\ LoadCall(t)
          \/ LoadEnter(t)
          \/ LoadInstantiate(t)
          \/ UnloadPipeline(t)
    \/ HandleWebrtcOffer
InitSpecOffer == InitPM /\ InitSampleIdle /\ InitFPOff /\ InitSessionOff
SpecOffer == InitSpecOffer /\ [][NextOffer]_vars

\* The FPS calculation over any sequence of samples.
NextFps == CalculatePipelineFps
InitSpecFps == InitPMLoaded /\ InitSampleIdle /\ InitFPOff /\ InitSessionOff
SpecFps == InitSpecFps /\ [][NextFps]_vars

\* One track from its creation, with no close.
InitSpecIngress == InitPMLoaded /\ InitSampleIdle /\ InitFPIngress /\ InitSessionOff
SpecIngress == InitSpecIngress /\ [][NextIngress]_vars

\* Workers of several sessions, and a manager that unloads and reloads.
NextShared ==
    \/ \E t \in Callers :
          \/ LoadCall(t)
          \/ LoadEnter(t)
          \/ LoadInstantiate(t)
          \/ UnloadPipeline(t)
    \/ \E s \in Sessions :
          \/ SharedGetPipeline(s)
          \/ SharedPrepareBegin(s)
          \/ SharedCallBegin(s)
          \/ SharedCallEnd(s)
InitSpecShared == InitPMLoaded /\ InitSampleIdle /\ InitFPOff /\ InitSessionOff
SpecShared == InitSpecShared /\ [][NextShared]_vars

\* The notification sender called from the worker thread.
NextNotifyThreads ==
    \/ WorkerNotifyCheck
    \/ WorkerNotifyAppend
    \/ BindChannel
    \/ OpenFlush
    \/ FlushClear
    \/ SendSync
InitSpecNotifyThreads == InitPMLoaded /\ InitSampleIdle /\ InitFPOff /\ InitSessionOff
SpecNotifyThreads == InitSpecNotifyThreads /\ [][NextNotifyThreads]_vars

\* The notification sender.
InitSpecNotify ==
    /\ InitPMLoaded /\ InitSampleIdle /\ InitFPOff
    /\ track = TrackInit /\ session = SessionInit("connected", FALSE)
    /\ dc = DcInit /\ sender = SenderInit
    /\ InitAppOff
SpecNotify == InitSpecNotify /\ [][NextNotify]_vars

\* A running frame processor while another thread unloads and reloads the
\* pipeline: frames arrive, parameter updates arrive, the worker ticks.
Reloader == "t1"
ReloadStep ==
    \/ LoadCall(Reloader) /\ callers'[Reloader].id = "passthrough"
                          /\ callers'[Reloader].params = None
    \/ LoadEnter(Reloader)
    \/ LoadInstantiate(Reloader)
    \/ UnloadPipeline(Reloader)
InitFPReload == InitFPWith([put |-> 1, out |-> 1, upd |-> 2], {[noise_scale |-> 1]})
\* The pipeline is loaded and one more load call is left in the run.
InitPMReload ==
    /\ manager = LoadSucceeded(ManagerInit, "longlive", None, 1)
    /\ lock = "free"
    /\ callers = [t \in Callers |-> CallerIdle]
    /\ instances = 1
    /\ loadCalls = MaxLoads - 1
\* update_parameters with the pause control, or with a bag that has none
PauseBags == {[paused |-> TRUE], [paused |-> FALSE], [noise_scale |-> 1]}
PauseUpdate ==
    /\ updates < budget.upd
    /\ \E bag \in PauseBags : UpdateCall(bag)
    /\ UNCHANGED otherVars
NextReload == Start \/ WorkerStep \/ FrameStep \/ PauseUpdate \/ ReloadStep
InitSpecReload == InitPMReload /\ InitSampleIdle /\ InitFPReload /\ InitSessionOff
SpecReload == InitSpecReload /\ [][NextReload]_vars

\* ------------------------------------------------- session registry
\* A session of WebRTCManager.sessions: registered until remove_session pops
\* it; handled: the connection states whose connectionstatechange handler
\* has run.
RegisteredSession(raises) ==
    [connectionState |-> "connected", pc |-> "idle", closes |-> 0, pc_closes |-> 0,
     stop_raises |-> raises, registered |-> TRUE, handled |-> {}]

\* The peer connection enters failed or closed (ICE failure, the remote side
\* going away); aiortc emits connectionstatechange.
ConnectionStateChange ==
    /\ event.pc = "idle"
    /\ \E state \in {"failed", "closed"} :
         /\ session.connectionState # "closed"
         /\ session.connectionState # state
         /\ session' = [session EXCEPT !.connectionState = state]
    /\ fpUnchanged
    /\ UNCHANGED <<envVars, track, dc, sender, app, fps, shared>>

AlwaysInRegistry(sess) == TRUE

\* if session_id in self.sessions
InRegistry(sess) == sess.registered

\* The handler of a state change has not run yet.
HandlerDue == session.connectionState \notin ({"connected"} \cup session.handled)

\* on_connectionstatechange in state closed or failed: remove_session pops
\* the session and enters close() up to its first await; an id that is not
\* in the registry is only logged.
OnConnectionStateChange ==
    /\ LoopFree
    /\ HandlerDue
    /\ IF InRegistry(session)
       THEN /\ track' = [track EXCEPT !.input_task_running = FALSE]
            /\ session' = [session EXCEPT
                  !.handled = @ \cup {session.connectionState},
                  !.registered = FALSE,
                  !.closes = @ + 1,
                  !.pc = IF track.has_input THEN "await_input" ELSE "fp_stop"]
       ELSE /\ session' = [session EXCEPT !.handled = @ \cup {session.connectionState}]
            /\ UNCHANGED track
    /\ fpUnchanged
    /\ UNCHANGED <<envVars, dc, sender, app, fps, shared>>

\* close() after its first step
CloseRest ==
    \/ CloseInputAwaited
    \/ CloseStopProcessor
    \/ CloseSuperStop
    \/ ClosePcCheck

InitSessionRemove ==
    /\ track = TrackInit
    /\ \E raises \in BOOLEAN : session = RegisteredSession(raises)
    /\ dc = DcInit
    /\ sender = SenderInit
    /\ InitAppOff
NextRemove ==
    \/ OnTrack
    \/ RecvInit
    \/ RecvPoll
    \/ GetPop
    \/ InputLoopPut
    \/ InputLoopError
    \/ PutAppend
    \/ WorkerStep
    \/ ConnectionStateChange
    \/ OnConnectionStateChange
    \/ CloseRest
    \/ StopSet
    \/ StopJoin
    \/ StopDrain
    \/ StopClear
InitSpecRemove == InitPMLoaded /\ InitSampleIdle /\ InitFPClose /\ InitSessionRemove
SpecRemove == InitSpecRemove /\ [][NextRemove]_vars

\* The event loop runs every task that is ready, and the threads advance.
SpecRemoveLive ==
    /\ SpecRemove
    /\ SF_vars(OnConnectionStateChange)
    /\ SF_vars(CloseRest)
    /\ WF_vars(StopSet \/ StopJoin \/ StopDrain \/ StopClear)
    /\ WF_vars(GetPop \/ PutAppend)
    /\ WF_vars(WorkerStep)

\* ------------------------------------------------- egress timestamps
\* The rates are fractions <<numerator, denominator>> of frames per second.
VIDEO_CLOCK_RATE == 90000
TRACK_FPS == 30
MaxEmitted == 4        \* frames the egress track emits per run

\* What _calculate_dynamic_fps can return: the current rate, or a measured
\* rate clamped to [min_fps, max_fps].
MeasuredRates ==
    {<<MIN_FPS, 1>>, <<11, 1>>, <<45, 2>>, <<TRACK_FPS, 1>>, <<301, 10>>, <<MAX_FPS, 1>>}

\* abs(new_fps - self.fps) > 0.1
SignificantChange(new, cur) ==
    LET d == new[1] * cur[2] - cur[1] * new[2]
    IN  10 * (IF d < 0 THEN 0 - d ELSE d) > new[2] * cur[2]

IncrementRounded(rate) == PyRound(VIDEO_CLOCK_RATE * rate[2], rate[1])

\* int(self.frame_ptime * VIDEO_CLOCK_RATE) with frame_ptime = 1.0 / self.fps
TimestampIncrement(rate) == (VIDEO_CLOCK_RATE * rate[2]) \div rate[1]

\* VideoProcessingTrack.__init__ as far as the media clock goes; pts and
\* rates record every timestamp returned and the rate in force at that call.
ClockInit ==
    [readyState |-> "live", has_timestamp |-> FALSE, timestamp |-> 0,
     fps |-> <<TRACK_FPS, 1>>, pts |-> <<>>, rates |-> <<>>]

\* recv() with a frame in hand: next_timestamp, then _update_fps_if_needed,
\* which replaces the rate when the interval has elapsed and the measured
\* rate differs enough.
NextTimestamp ==
    /\ track.readyState = "live"
    /\ Len(track.pts) < MaxEmitted
    /\ LET ts == IF track.has_timestamp
                 THEN track.timestamp + TimestampIncrement(track.fps)
                 ELSE 0
       IN  \E elapsed \in BOOLEAN, new_fps \in MeasuredRates :
             track' = [track EXCEPT
                 !.has_timestamp = TRUE,
                 !.timestamp = ts,
                 !.pts = Append(@, ts),
                 !.rates = Append(@, track.fps),
                 !.fps = IF elapsed /\ SignificantChange(new_fps, track.fps)
                         THEN new_fps ELSE @]
    /\ fpUnchanged
    /\ UNCHANGED <<envVars, session, dc, sender, app, fps, shared>>

InitSpecTimestamp ==
    /\ InitPMLoaded /\ InitSampleIdle /\ InitFPOff
    /\ track = ClockInit
    /\ session = SessionInit("connected", FALSE)
    /\ dc = DcInit
    /\ sender = SenderInit
    /\ InitAppOff
NextTimestampSpec == NextTimestamp
SpecTimestamp == InitSpecTimestamp /\ [][NextTimestampSpec]_vars

(***************************************************************************)
(* Properties of the pipeline manager (SpecPM)                             *)
(***************************************************************************)

\* The step in which thread t runs the body of _load_pipeline_sync_wrapper
\* up to its first return or to the instantiation.
LoadEnterStep(t) == callers[t].pc = "acquire" /\ callers'[t].pc # "acquire"

\* The step in which thread t's instantiation returns or raises.
LoadInstantiateStep(t) == callers[t].pc = "instantiate" /\ callers'[t].pc = "idle"

\* C9: load(id, p) while Loaded with the identical (id, p) returns true and
\* changes nothing: no unload, no instantiation, and status, id, load params
\* and pipeline handle are as before.
C9_LoadSameConfigIsNoOp ==
    [][\A t \in Callers :
         ( /\ LoadEnterStep(t)
           /\ manager.status = LOADED
           /\ manager.pipeline_id = callers[t].id
           /\ NormParams(manager.load_params) = NormParams(callers[t].params) )
         => /\ callers'[t].ret = "True"
            /\ callers'[t].pc = "idle"
            /\ callers'[t].events = <<>>
            /\ manager' = manager
            /\ instances' = instances
            /\ lock' = lock]_vars

\* A load of the loaded configuration has returned true without any event.
C9_Witness ==
    \E t \in Callers :
        /\ callers[t].op = "load" /\ callers[t].pc = "idle"
        /\ callers[t].ret = "True" /\ callers[t].events = <<>>
        /\ manager.status = LOADED
        /\ manager.pipeline_id = callers[t].id
        /\ manager.load_params # callers[t].params

\* C10: load(id', p') while Loaded with a different (id, p) unloads exactly
\* once, the unload is complete (no handle held, nothing instantiated yet)
\* before the new pipeline is instantiated, and a successful instantiation
\* leaves the manager Loaded with id' (the default id when omitted) and p'.
C10_ReloadDiscipline ==
    [][\A t \in Callers :
         /\ ( /\ LoadEnterStep(t)
              /\ manager.status = LOADED
              /\ ( manager.pipeline_id # callers[t].id
                   \/ NormParams(manager.load_params) # NormParams(callers[t].params) ) )
            => /\ callers'[t].events = <<"unload">>
               /\ callers'[t].pc = "instantiate"
               /\ manager'.pipeline = NoPipeline
               /\ manager'.status = LOADING
               /\ instances' = instances
         /\ ( LoadInstantiateStep(t) /\ callers[t].events = <<"unload">> )
            => /\ Len(callers'[t].events) = 2
               /\ callers'[t].events[1] = "unload"
               /\ manager.pipeline = NoPipeline
               /\ callers'[t].events[2] = "instantiate"
                    => /\ callers'[t].ret = "True"
                       /\ manager'.status = LOADED
                       /\ manager'.pipeline_id = callers[t].id
                       /\ manager'.load_params = callers[t].params
                       /\ manager'.pipeline = instances'
                       /\ instances' = instances + 1]_vars

\* A reload has completed: one unload, then one instantiation, state Loaded.
C10_Witness ==
    \E t \in Callers :
        /\ callers[t].events = <<"unload", "instantiate">>
        /\ callers[t].pc = "idle"
        /\ manager.status = LOADED
        /\ manager.pipeline_id = callers[t].id
        /\ manager.load_params = callers[t].params

\* C11: a load call made while another caller's load has the status LOADING
\* returns False at once: it never goes on to unload or instantiate, and
\* when it has returned it has returned False without any unload.
C11_LoadWhileLoadingReturnsFalse ==
    \A t \in Callers :
        ( /\ callers[t].op = "load"
          /\ callers[t].during = LOADING
          /\ callers[t].pc # "acquire" )
        => /\ callers[t].pc = "idle"
           /\ callers[t].ret = "False"
           /\ callers[t].events = <<>>

\* The step in which thread t runs get_pipeline.
GetPipelineStep(t) == callers'[t].op = "get" /\ callers'[t] # callers[t]

\* C12: get_pipeline returns the manager's pipeline handle exactly when the
\* status is LOADED, and raises PipelineNotAvailableException otherwise.
C12_GetPipelineOnlyWhenLoaded ==
    [][\A t \in Callers :
         GetPipelineStep(t) =>
            IF manager.status = LOADED
            THEN /\ callers'[t].ret = "pipeline"
                 /\ callers'[t].handle = manager.pipeline
                 /\ callers'[t].handle # NoPipeline
            ELSE /\ callers'[t].ret = "PipelineNotAvailable"
                 /\ callers'[t].handle = NoPipeline]_vars

\* One thread got the handle earlier; after a failed load the other thread's
\* get_pipeline raised.
C12_Witness ==
    \E t, u \in Callers :
        /\ callers[t].op = "get" /\ callers[t].ret = "pipeline"
        /\ callers[t].handle # NoPipeline
        /\ callers[u].op = "get" /\ callers[u].ret = "PipelineNotAvailable"
        /\ manager.status = ERROR

\* C13: when the instantiation fails, load returns False, the status is ERROR
\* with the failure message, and no handle, id or load params are retained,
\* also when another pipeline was loaded (and unloaded) by the same call.
C13_FailedLoadLeavesError ==
    [][\A t \in Callers :
         ( /\ LoadInstantiateStep(t)
           /\ callers'[t].events[Len(callers'[t].events)] = "instantiate_failed" )
         => /\ callers'[t].ret = "False"
            /\ manager'.status = ERROR
            /\ manager'.error_message = ErrorMessage(callers[t].id)
            /\ manager'.error_message # None
            /\ manager'.pipeline = NoPipeline
            /\ manager'.pipeline_id = None
            /\ manager'.load_params = None
            /\ instances' = instances]_vars

\* A load that first unloaded the loaded pipeline has failed.
C13_Witness ==
    \E t \in Callers :
        /\ callers[t].events = <<"unload", "instantiate_failed">>
        /\ callers[t].pc = "idle" /\ callers[t].ret = "False"
        /\ manager.status = ERROR

\* C14: at most one load transition is executing, and while one is, the
\* manager holds no pipeline handle (the previous one was released before the
\* instantiation); the handle the manager holds is the latest object.
C14_OneTransitionOneHandle ==
    /\ \A t, u \in Callers :
          (callers[t].pc = "instantiate" /\ callers[u].pc = "instantiate") => t = u
    /\ \A t \in Callers :
          callers[t].pc = "instantiate" =>
              /\ manager.pipeline = NoPipeline
              /\ manager.status = LOADING
              /\ lock = t
    /\ manager.pipeline \in {NoPipeline, instances}
    /\ (manager.status = LOADED) <=> (manager.pipeline # NoPipeline)

\* One thread is instantiating after unloading a loaded pipeline while the
\* other thread waits for the lock with its own load.
C14_Witness ==
    \E t, u \in Callers :
        /\ callers[t].pc = "instantiate" /\ callers[t].events = <<"unload">>
        /\ callers[u].pc = "acquire"
        /\ instances >= 1

(***************************************************************************)
(* Properties of the frame processor (SpecFP, SpecParams)                  *)
(***************************************************************************)
ProducedBefore(a, b) == a < b

\* The step in which put() appends its frame.
PutAppendStep == event.pc = "put" /\ event'.pc = "idle"

\* C1: the frame buffer never holds more than max_buffer_size frames; a put()
\* on a full buffer removes the oldest frame and appends the new one, the
\* other frames keeping their order.
C1_BufferBound ==
    /\ Len(frame_buffer) <= MaxBufferSize
    /\ [][ /\ Len(frame_buffer') <= MaxBufferSize
           /\ PutAppendStep =>
                frame_buffer' =
                    IF Len(frame_buffer) = MaxBufferSize
                    THEN Append(Tail(frame_buffer), event.frame)
                    ELSE Append(frame_buffer, event.frame) ]_vars

\* Before any sampling, flush or stop: the buffer is full and frame 1 is gone.
C1_Witness ==
    /\ ~is_prepared /\ notified = <<>>
    /\ event.pc = "idle" /\ event.ret = "True"
    /\ Len(frame_buffer) = MaxBufferSize
    /\ frame_buffer[1] = 2
    /\ frame_buffer[MaxBufferSize] = MaxBufferSize + 1

\* C3: the frames get() returns come out in production order.
C3_ProductionOrder ==
    \A i, j \in 1..Len(delivered) :
        i < j => ProducedBefore(delivered[i], delivered[j])

\* Position of frame f in sequence q (0 when absent).
IndexOf(q, f) == IF \E i \in 1..Len(q) : q[i] = f
                 THEN CHOOSE i \in 1..Len(q) : q[i] = f ELSE 0

\* C4: after a process call of M frames found the maxsize below 3M, the
\* maxsize is 3M; once the old queue is emptied, every frame that was queued
\* is in the new queue or was returned by get() (none lost while running), and
\* those frames leave through get() in their original order, ahead of the M
\* new frames.
C4_ResizeKeepsFramesInOrder ==
    resized.maxsize # 0 =>
        /\ queues[output_queue].maxsize = 3 * Len(resized.new)
        /\ (running /\ worker.pc \in {"enqueue", "loop", "tick"}) =>
              \A i \in 1..Len(resized.old) :
                  \/ IndexOf(delivered, resized.old[i]) # 0
                  \/ IndexOf(queues[output_queue].items, resized.old[i]) # 0
        /\ \A i, j \in 1..Len(delivered) :
              /\ ( /\ i < j
                   /\ IndexOf(resized.old, delivered[i]) # 0
                   /\ IndexOf(resized.old, delivered[j]) # 0 )
                 => IndexOf(resized.old, delivered[i]) < IndexOf(resized.old, delivered[j])
              /\ ( /\ IndexOf(resized.new, delivered[i]) # 0
                   /\ IndexOf(resized.old, delivered[j]) # 0 )
                 => j < i

\* Message m was handed to notification_callback.
HasMessage(m) == \E i \in 1..Len(notified) : notified[i] = m

\* {"type": "stream_stopped"} and {"type": "stream_stopped", "error_message": OOM}
PlainStopNotification == [type |-> "stream_stopped", error_message |-> None]
ErrorStopNotification == [type |-> "stream_stopped", error_message |-> OOM]

\* A stop() called on the event loop has passed its running test.
EventStopBegan ==
    \/ event.pc \in {"stop_set", "stop_join", "stop_drain", "stop_clear"}
    \/ HasMessage(PlainStopNotification)

\* C15 (as amended): when the pipeline call raised a non-recoverable error
\* and the worker has left its loop, the processor is not running, and the
\* stream_stopped notification with the error's message was handed over
\* unless a stop() called on the event loop had begun; from then on no get()
\* reaches the output queue (it returns None).
C15_FatalErrorStopsProcessor ==
    /\ (worker.pc = "exited" /\ worker.error = OOM) =>
          /\ ~running
          /\ HasMessage(ErrorStopNotification) \/ EventStopBegan
    /\ [][ (worker.pc = "exited" /\ worker.error = OOM /\ event.pc = "idle")
            => event'.pc # "get" ]_vars

\* The worker stopped the processor after the error and handed the message
\* over; no stop() was called on the event loop.
C15_Witness ==
    /\ worker.pc = "exited" /\ worker.error = OOM
    /\ notified = <<ErrorStopNotification>>
    /\ ~running
    /\ delivered # <<>>

\* C15 (as claimed): when the pipeline call raised a non-recoverable error
\* and the worker has left its loop, the processor is not running and the
\* stream_stopped notification with the error's message was handed over.
C15_FatalErrorAlwaysNotified ==
    (worker.pc = "exited" /\ worker.error = OOM) =>
        /\ ~running
        /\ HasMessage(ErrorStopNotification)

\* A stop() called on the event loop has returned.
EventStopReturned == HasMessage(PlainStopNotification) /\ event.pc = "idle"

\* C16: once stop() has returned, the output queue and the frame buffer are
\* empty and the processor is not running (put() returns False, get() None).
C16_StoppedProcessorIsEmpty ==
    EventStopReturned =>
        /\ ~running
        /\ QueueEmpty(queues[output_queue])
        /\ frame_buffer = <<>>

\* The step in which update_parameters runs.
UpdateStep == updates' = updates + 1

Visible(d) == [k \in (DOMAIN d) \ {"paused", "reset_cache"} |-> d[k]]

\* C6: with a worker that keeps ticking, and once no further update arrives,
\* the worker's parameters equal the initial bag overlaid with every accepted
\* bag in acceptance order (paused and reset_cache aside), and stay so.
C6_AcceptedUpdatesMergedInOrder ==
    <>[]( \/ worker.pc \in {"none", "exited"}
          \/ Visible(parameters) = Visible(accepted) )

\* All updates were sent, two different noise_scale values among the accepted
\* ones, and the running worker holds the later one.
C6_Witness ==
    /\ worker.pc = "prepare"
    /\ updates = MaxUpdates
    /\ parameters_queue = <<>>
    /\ Visible(accepted) = [noise_scale |-> 1, manage_cache |-> TRUE]
    /\ Visible(parameters) = Visible(accepted)

\* The step in which the worker merges a received bag.
MergeStep ==
    worker.pc = "tick" /\ worker'.pc = "get_pipeline" /\ parameters_queue # <<>>

\* C7: merging a bag keeps every key the bag does not mention, sets every
\* mentioned key to the bag's value, and merging the same bag again changes
\* nothing.
C7_MergeKeepsAndOverrides ==
    [][ MergeStep =>
          LET bag == Head(parameters_queue)
          IN  /\ DOMAIN parameters' = (DOMAIN parameters) \cup (DOMAIN bag)
              /\ \A k \in DOMAIN bag : parameters'[k] = bag[k]
              /\ \A k \in (DOMAIN parameters) \ (DOMAIN bag) : parameters'[k] = parameters[k]
              /\ MergeParameters(parameters', bag) = parameters' ]_vars

\* Just merged: noise_scale overridden, manage_cache kept, paused added.
C7_Witness ==
    /\ worker.pc = "get_pipeline"
    /\ DOMAIN parameters = {"noise_scale", "manage_cache", "paused"}
    /\ parameters["noise_scale"] = 1
    /\ updates = MaxUpdates

\* C8: no pipeline call receives paused, reset_cache, manage_cache or
\* prompt_interpolation_method.
C8_NoReservedKeyReachesProcess ==
    worker.pc = "process" =>
        CallKwargs \cap ({"paused"} \cup PREPARE_ONLY_PARAMS) = {}

(***************************************************************************)
(* Properties of uniform sampling (SpecSample)                             *)
(***************************************************************************)
Abs(x) == IF x < 0 THEN -x ELSE x

\* C2 (as amended): the sampled index for i is the integer nearest to i*N/K,
\* and when i*N/K lies exactly halfway between two integers it is the even
\* one; for N = 8, K = 4 the indices are [0,2,4,6].
C2_SampleNearestHalfEven ==
    sPc = "done" =>
        /\ Len(sChunk) = sK
        /\ \A i \in 0..(sK - 1) :
              LET idx == sChunk[i + 1]
              IN  /\ 2 * Abs(sK * idx - i * sN) <= sK
                  /\ 2 * Abs(sK * idx - i * sN) = sK => idx % 2 = 0
        /\ (sN = 8 /\ sK = 4) => sChunk = <<0, 2, 4, 6>>

\* A sample with a tie: N = 5, K = 2, i = 1 gives 2.5, rounded to 2.
C2_Witness == sPc = "done" /\ sN = 5 /\ sK = 2 /\ sChunk = <<0, 2>>

\* C2 (as claimed): the sampled index for i is floor(i*N/K + 0.5), halves
\* rounded up; for N = 8, K = 4 the indices are [0,2,4,6].
C2_SampleHalfUp ==
    sPc = "done" =>
        /\ Len(sChunk) = sK
        /\ \A i \in 0..(sK - 1) : sChunk[i + 1] = (2 * i * sN + sK) \div (2 * sK)
        /\ (sN = 8 /\ sK = 4) => sChunk = <<0, 2, 4, 6>>

(***************************************************************************)
(* Properties of the session                                               *)
(***************************************************************************)
\* The client's last message about pausing asked for a pause.
ClientPaused == dc.paused = "True"

\* C17: while the egress track is paused (the client's last paused value is
\* true), recv() takes no frame from the output queue.
C17_PausedTakesNoFrame ==
    [][(ClientPaused /\ ClientPaused') => delivered' = delivered]_vars

\* C18: every data channel message whose bag has the key paused reaches a
\* track with a frame processor with the value applied to the track's pause
\* flag and the whole bag forwarded to update_parameters.
C18_PausedAppliedAndForwarded ==
    (dc.n > 0 /\ dc.live /\ "paused" \in DOMAIN dc.bag) => (dc.applied /\ dc.forwarded)

Range(q) == {q[i] : i \in 1..Len(q)}
IsEarly(m) == m \in Range(sender.early)

\* C19: once the channel is bound and open and no send is outstanding, the
\* notifications queued before set_data_channel have been sent on the channel
\* in the order they were queued, each exactly once.
C19_EarlyNotificationsSentInOrder ==
    (sender.data_channel # None /\ sender.readyState = "open" /\ sender.scheduled = <<>>)
        => SelectSeq(sender.sent, IsEarly) = sender.early

IsPlainStop(m) == m = PlainStopNotification
SessionStep == session' # session \/ event' # event

C21_OfferWithoutPipelineIs400 ==
    (app.offers > 0 /\ ~app.loaded) => app.response = 400

\* C22: the published FPS is 30 until the first publication and lies in
\* [1, 60] in every state, whatever samples came, samples with zero frames
\* or zero elapsed time included.
C22_PublishedFpsClamped ==
    /\ fps.published = 0 => GetCurrentPipelineFps = <<DEFAULT_FPS, 1>>
    /\ FracLeq(<<MIN_FPS, 1>>, GetCurrentPipelineFps)
    /\ FracLeq(GetCurrentPipelineFps, <<MAX_FPS, 1>>)

\* A sample with zero frames or zero time was skipped, a slow sample was
\* published at the lower limit.
C22_Witness ==
    /\ fps.skipped > 0
    /\ fps.published > 0
    /\ GetCurrentPipelineFps = <<MIN_FPS, 1>>

\* C23: no frame processor and no worker thread exist before the first
\* recv(); the first recv() creates and starts exactly one frame processor,
\* and no later recv() creates another or starts a stopped one again.
C23_LazyStartOnce ==
    /\ [](track.processors = 0 => (~started /\ ~running /\ worker.pc = "none"))
    /\ [](track.processors <= 1)
    /\ [][track.processors > 0 =>
            /\ track'.processors = track.processors
            /\ (~running => ~running')
            /\ (worker.pc = "exited" => worker'.pc = "exited")]_vars

\* The one frame processor was started by the first recv(), later recv()
\* calls delivered a frame, and the processor then stopped on a fatal error.
C23_Witness ==
    /\ track.processors = 1
    /\ delivered # <<>>
    /\ started /\ ~running /\ worker.pc = "exited"

\* C29: whichever of the first inbound track and the first recv() comes
\* first, the ingress loop does not end on a frame that arrives before the
\* frame processor exists, and recv() does not fail.
C29_IngressSurvivesEitherOrder ==
    session.closes = 0 => (track.loop_ended # "put_error" /\ ~track.recv_raised)

\* C24: with sessions sharing the pipeline manager, at most one worker
\* thread at a time is executing prepare or the pipeline call on the loaded
\* pipeline.
C24_OneThreadInPipeline ==
    Cardinality({s \in Sessions : Executing(s) /\ shared[s].handle = manager.pipeline}) <= 1

\* C25: no worker executes prepare or the pipeline call on a handle that the
\* manager has unloaded (a handle that is no longer the manager's pipeline).
C25_NoWorkerOnUnloadedHandle ==
    \A s \in Sessions : Executing(s) => shared[s].handle = manager.pipeline

\* Message m was sent on the open channel exactly once.
SentOnce(m) == Len(SelectSeq(sender.sent, LAMBDA x : x = m)) = 1

\* C26: whatever the interleaving of call() on the worker thread with
\* set_data_channel and the flush on open on the event thread, once the
\* channel is open and nothing is in progress every notification has been
\* sent exactly once and none is left in pending. (Runs in which a send was
\* made on a channel that was not open are left aside.)
C26_EveryNotificationSentOnce ==
    (/\ sender.data_channel # None /\ sender.readyState = "open"
     /\ sender.wpc = "idle" /\ sender.flush = "idle"
     /\ sender.scheduled = <<>> /\ sender.failed = <<>>)
        => (sender.pending = <<>> /\ \A m \in 1..sender.calls : SentOnce(m))

\* C27: while the bound channel is not open yet, the notifications that were
\* pending at bind time are still pending, in their order.
C27_BindKeepsPendingUntilOpen ==
    (sender.data_channel # None /\ sender.readyState = "connecting")
        => SelectSeq(sender.pending, IsEarly) = sender.early

\* C28: over one start/stop run of a frame processor the stop callback is
\* invoked at most once, also when the worker thread (fatal error) and the
\* event thread (close) both enter stop(), and the notification carries
\* error_message exactly when stop() was given one.
C28_StopCallbackOnce ==
    /\ Len(notified) <= 1
    /\ \A i \in 1..Len(notified) :
         notified[i] \in {PlainStopNotification, ErrorStopNotification}

\* C30: every parameter message received on the data channel (here one
\* without the key paused) is forwarded to update_parameters of the
\* session's frame processor, also before the first recv() has created it.
C30_EveryMessageEnqueued ==
    (dc.n > 0 /\ "paused" \notin DOMAIN dc.bag) => dc.forwarded

(***************************************************************************)
(* Properties of the worker across a reload (SpecReload)                   *)
(***************************************************************************)

\* The worker is about to call prepare on a handle it never called prepare on.
FirstPrepareOnHandle == worker.pc = "prepare" /\ worker.pipeline \notin prepared

\* C31: the first prepare call made on a pipeline handle has
\* should_prepare = true, also on a handle that replaced an earlier one
\* through a reload while the frame processor runs.
C31_FirstPrepareShouldPrepare ==
    FirstPrepareOnHandle => worker.should_prepare

\* The step in which get_pipeline raises PipelineNotAvailableException and the
\* worker loop handles it.
PipelineUnavailableStep ==
    /\ worker.pc = "get_pipeline"
    /\ worker'.pc # "get_pipeline"
    /\ ~PipelineAvailable(manager)

\* C33: when the manager reports the pipeline unavailable during a tick, the
\* worker empties the frame buffer and goes on with its loop: the frame
\* processor stays running, no stop notification is emitted and the output
\* queue is as before.
C33_UnavailableFlushesAndContinues ==
    [][PipelineUnavailableStep =>
          /\ frame_buffer' = <<>>
          /\ worker'.pc = "loop"
          /\ running' = running /\ shutdown_event' = shutdown_event
          /\ notified' = notified
          /\ queues' = queues /\ output_queue' = output_queue]_vars

\* A frame was put, prepare was never called (no frame was sampled), the
\* pipeline is unavailable and the running worker has emptied the buffer.
C33_Witness ==
    /\ running /\ ~shutdown_event
    /\ worker.pc = "loop"
    /\ ~PipelineAvailable(manager)
    /\ nextIn > 1 /\ prepared = {}
    /\ frame_buffer = <<>>
    /\ notified = <<>>

\* The pause state in force: the paused key of the merged parameters when the
\* worker has not popped it yet, the paused flag otherwise.
PauseInForce == IF "paused" \in DOMAIN parameters THEN parameters["paused"] ELSE paused

\* A step of the worker thread.
WorkerActs == worker' # worker

\* A step of a paused worker calls neither prepare nor process and adds
\* nothing to the output queue.
PausedWorkerCallsNothing ==
    /\ worker'.pc \notin {"prepare", "process", "transfer", "enqueue", "stop"}
    /\ prepared' = prepared
    /\ nextOut' = nextOut
    /\ queues' = queues /\ output_queue' = output_queue

\* The step that takes a bag without the key paused from the parameter queue.
MergeWithoutPausedStep ==
    /\ worker.pc = "tick" /\ worker'.pc = "get_pipeline"
    /\ parameters_queue # <<>>
    /\ "paused" \notin DOMAIN ParametersGet(parameters_queue)

\* C32 (as stated): from the tick that merges paused = true until a bag with
\* paused = false is merged, the worker calls neither prepare nor process,
\* adds nothing to the output queue and removes nothing from the frame
\* buffer; a bag without paused leaves the pause state as it is.
C32_PausedWorkerTouchesNothing ==
    [][/\ (PauseInForce /\ WorkerActs) =>
              (PausedWorkerCallsNothing /\ frame_buffer' = frame_buffer)
       /\ MergeWithoutPausedStep => (PauseInForce' = PauseInForce)]_vars

\* C32 (amended): the same, except that a paused tick in which the manager
\* reports the pipeline unavailable empties the frame buffer.
C32_PausedWorkerOnlyFlushes ==
    [][/\ (PauseInForce /\ WorkerActs) =>
              /\ PausedWorkerCallsNothing
              /\ \/ frame_buffer' = frame_buffer
                 \/ PipelineUnavailableStep /\ frame_buffer' = <<>>
       /\ MergeWithoutPausedStep => (PauseInForce' = PauseInForce)]_vars

\* The worker is paused with a frame in the buffer, and has merged a later
\* bag that does not mention paused.
C32_Witness ==
    /\ paused /\ running
    /\ worker.pc = "loop"
    /\ frame_buffer # <<>>
    /\ updates >= 2 /\ parameters_queue = <<>>
    /\ "paused" \notin DOMAIN accepted \/ accepted["paused"]

(***************************************************************************)
(* Properties of the frame flow (SpecFP), continued                        *)
(***************************************************************************)

\* The step in which prepare returns Requirements(input_size).
PrepareRequiresStep == worker.pc = "prepare" /\ worker'.req # NoRequirements

\* C34: the pipeline is never called with fewer frames than the input_size
\* returned by the prepare call of the same tick; when the buffer holds
\* fewer frames the tick ends without the pipeline call and without removing
\* a frame from the buffer.
C34_NeverFewerFramesThanRequired ==
    [][PrepareRequiresStep =>
          IF Len(frame_buffer) < worker'.req
          THEN /\ worker'.pc = "loop"
               /\ frame_buffer' = frame_buffer
               /\ nextOut' = nextOut
          ELSE /\ worker'.pc = "process"
               /\ Len(worker'.input) = worker'.req]_vars

\* A tick has ended at the buffer test: prepare asked for more frames than
\* the buffer holds, and the frames are still there.
C34_Witness ==
    /\ worker.pc = "loop"
    /\ worker.req # NoRequirements
    /\ frame_buffer # <<>>
    /\ Len(frame_buffer) < worker.req

\* The step of the enqueue loop that finds the output queue full.
EnqueueOnFullStep ==
    /\ worker.pc = "enqueue" /\ worker.output # <<>>
    /\ WorkerActs
    /\ QueueFull(queues[output_queue])

\* C35: the output queue never holds more frames than its capacity, the
\* capacity is at least the one given to the constructor and never decreases,
\* and a frame produced while the queue is full is dropped with the queued
\* frames unchanged.
C35_OutputQueueBounded ==
    /\ [](/\ Len(queues[output_queue].items) <= queues[output_queue].maxsize
          /\ queues[output_queue].maxsize >= MaxOutputQueueSize)
    /\ [][/\ queues'[output_queue'].maxsize >= queues[output_queue].maxsize
          /\ EnqueueOnFullStep =>
                (queues' = queues /\ worker'.output = Tail(worker.output))]_vars

\* The running worker has finished a tick, the queue is full, and a frame it
\* produced is neither queued nor delivered: it was dropped.
C35_Witness ==
    /\ running /\ worker.pc = "loop"
    /\ QueueFull(queues[output_queue])
    /\ Len(delivered) + Len(queues[output_queue].items) < nextOut - 1

(***************************************************************************)
(* Properties of the pipeline manager (SpecPM), continued                  *)
(***************************************************************************)

\* C37: load with the id omitted and the same params, while the default
\* pipeline is Loaded, returns true with no unload and no instantiation.
C37_DefaultLoadRepeatedIsNoOp ==
    [][\A t \in Callers :
         ( /\ LoadEnterStep(t)
           /\ callers[t].id = None
           /\ manager.status = LOADED
           /\ manager.pipeline_id = ResolveId(None)
           /\ NormParams(manager.load_params) = NormParams(callers[t].params) )
         => /\ callers'[t].ret = "True"
            /\ callers'[t].pc = "idle"
            /\ callers'[t].events = <<>>
            /\ manager' = manager
            /\ instances' = instances]_vars

(***************************************************************************)
(* Properties of the media clock (SpecTimestamp)                           *)
(***************************************************************************)

\* C38: the first frame emitted has timestamp 0, every later timestamp is
\* the previous one plus round(CLOCK_RATE / fps) for the fps in force at
\* that call, and the timestamps strictly increase.
C38_TimestampsAdvanceByRoundedPeriod ==
    /\ (track.pts # <<>> => track.pts[1] = 0)
    /\ \A i \in 2..Len(track.pts) :
          /\ track.pts[i] = track.pts[i - 1] + IncrementRounded(track.rates[i])
          /\ track.pts[i] > track.pts[i - 1]

(***************************************************************************)
(* Properties of the session registry (SpecRemoveLive)                     *)
(***************************************************************************)

\* The session is out of the registry, its egress track has ended and its
\* frame processor, when one was created, is not running.
SessionRemovedAndStopped ==
    /\ ~session.registered
    /\ ~track.input_task_running
    /\ track.readyState = "ended"
    /\ started => ~running

\* The handler step of a session that is no longer in the registry.
RemoveUnknownStep ==
    /\ HandlerDue /\ ~session.registered
    /\ session'.handled # session.handled

\* C36: once the peer connection of a session is closed or failed, the
\* session is eventually out of the registry with its egress track and its
\* frame processor stopped; remove_session for an id that is not in the
\* registry changes nothing.
C36_ClosedSessionIsRemoved ==
    /\ (session.connectionState \in {"closed", "failed"}) ~> SessionRemovedAndStopped
    /\ [][RemoveUnknownStep =>
              /\ session' = [session EXCEPT !.handled = session'.handled]
              /\ track' = track /\ event' = event
              /\ running' = running /\ notified' = notified]_vars

\* The connection failed and then closed after frames had flowed: the first
\* handler removed and closed the session, the second found no such id.
C36_Witness ==
    /\ session.handled = {"failed", "closed"}
    /\ session.closes = 1 /\ session.pc = "idle"
    /\ started /\ track.has_input
    /\ SessionRemovedAndStopped

====
